---- MODULE Spec2Model ----
(***************************************************************************)
(* A model of the terrain generator of pirate-cove-roguelike: the tile     *)
(* and resource model (tile.py), the macro world map (macro_map.py) and    *)
(* the chunk generator with its cache (map_generator.py).                  *)
(*                                                                         *)
(* Numbers.  The program computes with Python floats.  The model uses      *)
(* fixed point: a float v is the integer v * Scale, with Scale = 320, the  *)
(* smallest scale in which every threshold of the program (0.05, 0.1, ..., *)
(* 0.9) and the erosion step (k/8 * 0.05, and half of it) is an integer.   *)
(* Products are rescaled with \div, which rounds down.                     *)
(*                                                                         *)
(* Trigonometry.  np.sin and np.cos are computed by Bhaskara's rational    *)
(* approximation on angles measured in 1/10000 of a turn.                  *)
(*                                                                         *)
(* Randomness.  random.Random(seed) is a deterministic stream determined   *)
(* by its seed.  The model keeps that and replaces the Mersenne Twister by *)
(* a 16-bit linear congruential generator.                                 *)
(***************************************************************************)
EXTENDS Integers, Sequences, FiniteSets, TLC

VARIABLES
    ti,         \* SpecTile: one TileInfo object
    tcall,      \* SpecTile: the last call on ti: operation, argument, state before, result
    worlds,     \* SpecMacro: the MacroWorldMap objects constructed so far, in order
    self_macro_map,     \* Spec: self.macro_map, the same object for each MapGenerator
    self_chunk_size,    \* Spec: self.chunk_size, the same for each MapGenerator
    self_chunks,        \* Spec: self.chunks of each MapGenerator: key -> chunk object
    generated,          \* Spec: how often each MapGenerator has generated each key
    ret,                \* Spec: the last call and what it returned
    registry,           \* SpecRegistry: one Registry object
    rcall,              \* SpecRegistry: the last call on registry, the state before it,
                        \* and what it returned or raised
    manager,            \* SpecSave: the SaveManager that records
    new_manager,        \* SpecSave: the fresh SaveManager that imports
    scall,              \* SpecSave: the last call and what it returned
    river_frame,        \* SpecRivers: the frame of _generate_rivers and _trace_river:
                        \* self.cells, the local variables, and a log of the traces
    chunk_frame,        \* SpecPasses: the frame of generate_chunk past the cache
                        \* lookup: the tiles dict after each pass made so far
    game                \* SpecGame: the Game object and the last command handled

tile_vars == <<ti, tcall>>
chunk_vars == <<self_macro_map, self_chunk_size, self_chunks, generated, ret>>
ecs_vars == <<registry, rcall>>
save_vars == <<manager, new_manager, scall>>
loop_vars == <<chunk_frame, game>>
support_vars == <<ecs_vars, save_vars, river_frame, loop_vars>>

vars == <<ti, tcall, worlds, self_macro_map, self_chunk_size, self_chunks, generated, ret,
          support_vars>>

(***************************************************************************)
(* Bounds of the model.                                                    *)
(***************************************************************************)
MaxWidth == 5       \* SpecMacro: widths 0..MaxWidth
MaxHeight == 3      \* SpecMacro: heights 0..MaxHeight
MaxSeed == 3        \* SpecMacro: seeds -1..MaxSeed, and what random.randint draws
MaxQty == 4         \* resource quantities set by set_resource: 0..MaxQty
MaxAmount == 5      \* harvest amounts: -MaxAmount..MaxAmount; a tile never
                    \* holds more than MaxQty + MaxAmount
MaxChunkSize == 3   \* Spec: chunk sizes 1..MaxChunkSize
MaxPassSize == 5    \* SpecPasses: chunk sizes 1..MaxPassSize
MaxPassSeed == 3    \* SpecPasses: macro map seeds 0..MaxPassSeed
MaxGameCommands == 8 \* SpecGame: the game loop handles at most MaxGameCommands commands
MaxStripWidth == 52 \* SpecRivers: the longest drawn grid, on which a trace can
                    \* take max_path_length steps
MaxCommands == 2    \* SpecSave: record_command appends at most MaxCommands commands
MaxEntities == 2    \* SpecRegistry: create_entity is called at most MaxEntities times
MaxDistance == 2    \* SpecNeighbors: get_neighbors distances 0..MaxDistance
MaxRegionWidth == 8 \* SpecSettle: grids of 1..MaxRegionWidth by 1..MaxHeight
                    \* cells, which hold more candidates than settlements
BiomeSteps == 20    \* SpecBiome: the arguments of determine_biome are the
                    \* multiples of 1/BiomeSteps in [-1, 1] and in [0, 1]

(***************************************************************************)
(* Fixed point.                                                            *)
(***************************************************************************)
Scale == 32 * 10

Min(a, b) == IF a <= b THEN a ELSE b
Max(a, b) == IF a >= b THEN a ELSE b
Abs(a) == IF a < 0 THEN -a ELSE a

\* the function f itself; written so that TLC tabulates f once instead of
\* computing f[x] anew at every lookup
Table(f) == f @@ <<>>

\* the value e; written so that TLC computes v first, which keeps the stack
\* of its evaluator shallow in the loops below
After(v, e) == CASE v \notin {} -> e

\* the float literal n/100, e.g. Lit(5) is 0.05
Lit(n) == (n * Scale) \div 100

None == "None"

(***************************************************************************)
(* tile.py: BiomeType, Tile, TileInfo                                      *)
(***************************************************************************)
BiomeType == {"ocean", "beach", "grassland", "forest", "hills", "mountains",
              "swamp", "desert", "jungle", "tundra", "river", "lake"}

WaterBiomes == {"ocean", "river", "lake"}

Tile(glyph, biome, height, moisture) ==
    [glyph |-> glyph, biome |-> biome, height |-> height, moisture |-> moisture]

\* TileInfo.__init__ with its defaults for temperature, passable and the resource
TileInfo(x, y, tile, temperature, passable) ==
    [x |-> x, y |-> y, tile |-> tile, temperature |-> temperature,
     passable |-> passable, resource_type |-> None, resource_quantity |-> 0]

is_water(t) == t.tile.biome \in WaterBiomes

is_land(t) == ~is_water(t) /\ t.tile.height >= 0

can_mine(t) ==
    /\ is_land(t)
    /\ t.tile.biome \in {"hills", "mountains"}
    /\ t.tile.height > Lit(40)

get_mining_richness(t) ==
    IF ~can_mine(t) THEN 0
    ELSE LET base_richness == IF t.tile.biome = "hills" THEN Lit(60)
                              ELSE IF t.tile.biome = "mountains" THEN Lit(100)
                              ELSE 0
             elevation_bonus == Min(2 * Scale, t.tile.height * 2)
         IN  (base_richness * elevation_bonus) \div Scale

set_resource(t, resource_type, quantity) ==
    [t EXCEPT !.resource_type = resource_type, !.resource_quantity = quantity]

\* Python truth of a resource_type: None and the empty string are false
Truthy(resource_type) == resource_type \notin {None, ""}

\* harvest_resource: the tile after the call and the value returned
harvest_wrong_min(t, amount) ==
    IF ~Truthy(t.resource_type) \/ t.resource_quantity <= 0
    THEN [tile |-> t, ret |-> 0]
    ELSE LET harvested == amount
             left == t.resource_quantity - harvested
         IN  [tile |-> IF left <= 0
                       THEN [t EXCEPT !.resource_type = None, !.resource_quantity = 0]
                       ELSE [t EXCEPT !.resource_quantity = left],
              ret |-> harvested]

harvest_resource(t, amount) ==
    IF ~Truthy(t.resource_type) \/ t.resource_quantity <= 0
    THEN [tile |-> t, ret |-> 0]
    ELSE LET harvested == Min(amount, t.resource_quantity)
             left == t.resource_quantity - harvested
         IN  [tile |-> IF left <= 0
                       THEN [t EXCEPT !.resource_type = None, !.resource_quantity = 0]
                       ELSE [t EXCEPT !.resource_quantity = left],
              ret |-> harvested]

get_default_glyph_for_biome(biome) ==
    CASE biome = "ocean" -> "~"
      [] biome = "beach" -> "."
      [] biome = "grassland" -> "."
      [] biome = "forest" -> "spade"
      [] biome = "hills" -> "^"
      [] biome = "mountains" -> "triangle"
      [] biome = "swamp" -> "approx"
      [] biome = "desert" -> "~"
      [] biome = "jungle" -> "spade"
      [] biome = "tundra" -> "."
      [] biome = "river" -> "~"
      [] biome = "lake" -> "~"
      [] OTHER -> "."

\* determine_biome; first, one that asks for moisture before height in the
\* temperate band
determine_biome_moisture_first(height, moisture, temperature) ==
    IF height < 0 THEN "ocean"
    ELSE IF height < Lit(10) THEN "beach"
    ELSE IF temperature < Lit(20) THEN "tundra"
    ELSE IF temperature < Lit(40) THEN
        IF moisture > Lit(60) THEN "forest"
        ELSE IF moisture > Lit(30) THEN "grassland"
        ELSE "hills"
    ELSE IF temperature < Lit(70) THEN
        IF moisture > Lit(70) THEN "forest"
        ELSE IF moisture > Lit(60) THEN "swamp"
        ELSE IF height > Lit(70) THEN "mountains"
        ELSE IF height > Lit(50) THEN "hills"
        ELSE IF moisture > Lit(30) THEN "grassland"
        ELSE "desert"
    ELSE
        IF height > Lit(60) THEN "mountains"
        ELSE IF moisture > Lit(80) THEN "jungle"
        ELSE IF moisture > Lit(60) THEN "swamp"
        ELSE IF moisture > Lit(20) THEN "grassland"
        ELSE "desert"

\* and one that has lost its test for water
determine_biome_no_water(height, moisture, temperature) ==
    IF height < Lit(10) THEN "beach"
    ELSE IF temperature < Lit(20) THEN "tundra"
    ELSE IF height > Lit(60) THEN "mountains"
    ELSE "grassland"

determine_biome(height, moisture, temperature) ==
    IF height < 0 THEN "ocean"
    ELSE IF height < Lit(10) THEN "beach"
    ELSE IF temperature < Lit(20) THEN "tundra"
    ELSE IF temperature < Lit(40) THEN
        IF moisture > Lit(60) THEN "forest"
        ELSE IF moisture > Lit(30) THEN "grassland"
        ELSE "hills"
    ELSE IF temperature < Lit(70) THEN
        IF height > Lit(70) THEN "mountains"
        ELSE IF height > Lit(50) THEN "hills"
        ELSE IF moisture > Lit(70) THEN "forest"
        ELSE IF moisture > Lit(60) THEN "swamp"
        ELSE IF moisture > Lit(30) THEN "grassland"
        ELSE "desert"
    ELSE
        IF height > Lit(60) THEN "mountains"
        ELSE IF moisture > Lit(80) THEN "jungle"
        ELSE IF moisture > Lit(60) THEN "swamp"
        ELSE IF moisture > Lit(20) THEN "grassland"
        ELSE "desert"

(***************************************************************************)
(* np.sin, np.cos: angles in 1/10000 of a turn, values times Scale.        *)
(***************************************************************************)
Turn == 100 * 100

\* Bhaskara's approximation of sin on the half turn 0..Turn/2
Bhaskara(a) ==
    LET q == (a * (Turn \div 2 - a)) \div 100
    IN  (4 * Scale * q) \div (312500 - q)

Sin(t) ==
    LET a == t % Turn
    IN  IF a <= Turn \div 2 THEN Bhaskara(a) ELSE -Bhaskara(a - Turn \div 2)

Cos(t) == Sin(t + Turn \div 4)

\* the angle of n/10 radians
Rad(n) == (n * 15915) \div 100

(***************************************************************************)
(* random.Random: the generator's state s, and what each method draws      *)
(* from it.                                                                *)
(***************************************************************************)
RngMod == 65536 + 1

RngSeed(seed) == ((seed % RngMod) * 1103 + 12345) % RngMod

RngNext(s) == (s * 75 + 74) % RngMod

RECURSIVE RngAdvance(_, _)
RngAdvance(s, k) ==
    IF k <= 0 THEN s
    ELSE LET t == RngNext(s) IN After(t, RngAdvance(t, k - 1))

\* rng.random() read off the state reached by the draw, in [0, Scale)
Random(s) == (s * Scale) \div RngMod

\* rng.randint(a, b)
RandInt(s, a, b) == a + (s * (b - a + 1)) \div RngMod

\* rng.uniform(a, b), a and b fixed point
Uniform(s, a, b) == a + ((b - a) * Random(s)) \div Scale

(***************************************************************************)
(* macro_map.py: MacroCell and MacroWorldMap                               *)
(***************************************************************************)
sea_level == 0
land_ratio == 96            \* 0.3
max_check_distance == 5
max_path_length == 50
MaxRivers == 10             \* river_sources[:10]
MaxSettlements == 20        \* settlement_candidates[:20]

\* MacroCell(x, y, elevation) with the dataclass defaults
MacroCell(x, y, elevation) ==
    [x |-> x, y |-> y, elevation |-> elevation, moisture |-> Lit(50),
     temperature |-> Lit(50), climate |-> "temperate", biome |-> "ocean",
     landform |-> "ocean", has_river |-> FALSE, river_entry_sides |-> {},
     is_sea_border |-> FALSE, population |-> 0, wealth |-> 0]

\* the keys of self.cells in insertion order: y outer, x inner
ScanOrder(w, h) ==
    IF w <= 0 \/ h <= 0 THEN <<>>
    ELSE [k \in 1..(w * h) |-> <<(k - 1) % w, (k - 1) \div w>>]

ScanIndex(w, p) == p[2] * w + p[1]

GridCoords(w, h) == (0..(w - 1)) \X (0..(h - 1))

\* one octave of the macro noise at (x, y): units is scale * Turn
MacroOctave(x, y, units, seed) ==
    (Sin(x * units + Rad(10 * seed)) + Cos(y * units + Rad(10 * seed))) \div 2

ElevationAt(x, y, w, h, seed) ==
    LET noise == MacroOctave(x, y, 100, seed)
                 + MacroOctave(x, y, 200, seed) \div 2
                 + MacroOctave(x, y, 400, seed) \div 4
                 + MacroOctave(x, y, 800, seed) \div 8
        normal == (noise + Scale) \div 2
        center_x == w \div 2
        center_y == h \div 2
        d2 == (x - center_x) * (x - center_x) + (y - center_y) * (y - center_y)
        m2 == center_x * center_x + center_y * center_y
        \* 0/0 is NaN in numpy: only for width = height = 1, where the
        \* temperature phase then divides by zero
        edge_factor == IF m2 = 0 THEN 0 ELSE Scale - (Scale * d2) \div m2
    IN  (normal * edge_factor) \div Scale - (Lit(50) - land_ratio)

_generate_elevation(w, h, seed) ==
    Table([p \in GridCoords(w, h) |-> MacroCell(p[1], p[2], ElevationAt(p[1], p[2], w, h, seed))])

Clamp01(v) == Max(0, Min(Scale, v))

\* raises ZeroDivisionError when height // 2 = 0 and there is a cell
TemperatureRaises(w, h) == w >= 1 /\ h >= 1 /\ h \div 2 = 0

_generate_temperature(cells, w, h, rng0) ==
    Table([p \in DOMAIN cells |->
        LET cell == cells[p]
            latitude_factor == (Scale * Abs(p[2] - h \div 2)) \div (h \div 2)
            base_temp == Scale - latitude_factor
            elevation_cooling == (Max(0, cell.elevation) * 3) \div 10
            s == RngAdvance(rng0, ScanIndex(w, p) + 1)
            temp_noise == (Random(s) - Scale \div 2) \div 5
        IN  [cell EXCEPT !.temperature =
                Clamp01(base_temp - elevation_cooling + temp_noise)]])

_get_ocean_proximity(cells, x, y) ==
    LET found(d) == \E q \in DOMAIN cells :
                        /\ Abs(q[1] - x) + Abs(q[2] - y) = d
                        /\ cells[q].elevation < sea_level
        ds == {d \in 1..max_check_distance : found(d)}
    IN  IF ds = {} THEN 0
        ELSE LET distance == CHOOSE d \in ds : \A e \in ds : d <= e
             IN  Scale - (Scale * distance) \div max_check_distance

_generate_moisture(cells, w, h, rng0) ==
    Table([p \in DOMAIN cells |->
        LET cell == cells[p]
            s == RngAdvance(rng0, ScanIndex(w, p) + 1)
            base_moisture == Scale \div 2 + ((Random(s) - Scale \div 2) * 2) \div 5
            ocean_proximity == _get_ocean_proximity(cells, p[1], p[2])
            moisture_bonus == (ocean_proximity * 3) \div 10
            elevation_factor == Max(0, Scale - cell.elevation)
        IN  [cell EXCEPT !.moisture =
                Clamp01(base_moisture + (moisture_bonus * elevation_factor) \div Scale)]])

_determine_climates(cells) ==
    Table([p \in DOMAIN cells |->
        LET cell == cells[p]
        IN  [cell EXCEPT !.climate =
                IF cell.temperature > Lit(70) THEN "tropical"
                ELSE IF cell.temperature > Lit(50) THEN "temperate"
                ELSE IF cell.temperature > Lit(30) THEN
                    IF cell.moisture < Lit(30) THEN "arid" ELSE "cold"
                ELSE "arctic"]])

_determine_biomes(cells) ==
    Table([p \in DOMAIN cells |->
        [cells[p] EXCEPT !.biome =
            determine_biome(cells[p].elevation, cells[p].moisture, cells[p].temperature)]])

\* self.cells.get((x, y)): an Optional, here a sequence holding the cell or nothing
get_cell(cells, x, y) == IF <<x, y>> \in DOMAIN cells THEN <<cells[<<x, y>>]>> ELSE <<>>

\* self.cells after self.cells.get((x, y)) or a test (x, y) in self.cells: a
\* dict is not changed by a lookup; first, a lookup that fills in what is missing
CellsAfterSetdefault(cells, x, y) ==
    IF <<x, y>> \in DOMAIN cells THEN cells
    ELSE [p \in DOMAIN cells \cup {<<x, y>>} |->
             IF p = <<x, y>> THEN MacroCell(x, y, -(Scale \div 2)) ELSE cells[p]]

CellsAfterGet(cells, x, y) == cells

\* the offsets (dx, dy) that get_neighbors visits, in its order, for distance 1
NeighborOffsets ==
    << <<-1, -1>>, <<-1, 0>>, <<-1, 1>>, <<0, -1>>, <<0, 1>>, <<1, -1>>, <<1, 0>>, <<1, 1>> >>

\* get_neighbors(x, y): the positions of the neighbours, in the order of the list
NeighborPositions(cells, x, y) ==
    LET all == [i \in 1..Len(NeighborOffsets) |->
                   <<x + NeighborOffsets[i][1], y + NeighborOffsets[i][2]>>]
        InGrid(q) == q \in DOMAIN cells
    IN  SelectSeq(all, InGrid)

SeqRange(seq) == {seq[i] : i \in 1..Len(seq)}

_classify_landforms(cells) ==
    Table([p \in DOMAIN cells |->
        LET cell == cells[p]
            neighbors == SeqRange(NeighborPositions(cells, p[1], p[2]))
            land_neighbors == Cardinality({q \in neighbors : cells[q].elevation >= sea_level})
            water_neighbors == Cardinality(neighbors) - land_neighbors
        IN  [cell EXCEPT !.landform =
                IF cell.elevation < sea_level THEN "ocean"
                ELSE IF land_neighbors = 0 THEN "atoll"
                ELSE IF water_neighbors >= 6 THEN "island"
                ELSE IF water_neighbors >= 3 THEN "archipelago"
                ELSE IF water_neighbors >= 1 THEN "peninsula"
                ELSE "continent"]])

\* min(seq, key = elevation): the first position of least elevation
RECURSIVE LowestOf(_, _, _, _)
LowestOf(cells, seq, i, best) ==
    IF i > Len(seq) THEN best
    ELSE LET next == IF cells[seq[i]].elevation < cells[best].elevation
                     THEN seq[i] ELSE best
         IN  After(next, LowestOf(cells, seq, i + 1, next))

\* the side towards which the river flows on, instead of the side it came from
EntrySideAhead(dx, dy) ==
    IF dx > 0 THEN "east"
    ELSE IF dx < 0 THEN "west"
    ELSE IF dy > 0 THEN "south"
    ELSE "north"

EntrySide(dx, dy) ==
    IF dx > 0 THEN "west"
    ELSE IF dx < 0 THEN "east"
    ELSE IF dy > 0 THEN "north"
    ELSE "south"

\* the local variables of _trace_river and self.cells after an iteration of
\* the while loop; done: the loop was left
Traced(done, cells, current, visited, path_length) ==
    [done |-> done, cells |-> cells, current |-> current, visited |-> visited,
     path_length |-> path_length]

\* an iteration of the while loop that has no limit on the path length
TraceStepNoLimit(cells, current, visited, path_length) ==
    IF current \in visited
    THEN Traced(TRUE, cells, current, visited, path_length)
    ELSE LET marked == [cells EXCEPT ![current].has_river = TRUE]
             neighbors == NeighborPositions(cells, current[1], current[2])
             lowest_neighbor == LowestOf(cells, neighbors, 2, neighbors[1])
         IN  IF Len(neighbors) = 0
             THEN Traced(TRUE, marked, current, visited \cup {current}, path_length)
             ELSE IF \/ cells[lowest_neighbor].elevation >= cells[current].elevation
                     \/ cells[lowest_neighbor].elevation < sea_level
             THEN Traced(TRUE, marked, current, visited \cup {current}, path_length)
             ELSE Traced(FALSE,
                         [marked EXCEPT ![lowest_neighbor].river_entry_sides =
                             @ \cup {EntrySide(lowest_neighbor[1] - current[1],
                                               lowest_neighbor[2] - current[2])}],
                         lowest_neighbor, visited \cup {current}, path_length + 1)

\* an iteration of the while loop that flows on to a neighbour as low as the
\* cell it is in
TraceStepLevel(cells, current, visited, path_length) ==
    IF path_length >= max_path_length \/ current \in visited
    THEN Traced(TRUE, cells, current, visited, path_length)
    ELSE LET marked == [cells EXCEPT ![current].has_river = TRUE]
             neighbors == NeighborPositions(cells, current[1], current[2])
             lowest_neighbor == LowestOf(cells, neighbors, 2, neighbors[1])
         IN  IF Len(neighbors) = 0
             THEN Traced(TRUE, marked, current, visited \cup {current}, path_length)
             ELSE IF \/ cells[lowest_neighbor].elevation > cells[current].elevation
                     \/ cells[lowest_neighbor].elevation < sea_level
             THEN Traced(TRUE, marked, current, visited \cup {current}, path_length)
             ELSE Traced(FALSE,
                         [marked EXCEPT ![lowest_neighbor].river_entry_sides =
                             @ \cup {EntrySide(lowest_neighbor[1] - current[1],
                                               lowest_neighbor[2] - current[2])}],
                         lowest_neighbor, visited \cup {current}, path_length + 1)

\* _trace_river: one evaluation of the while condition and, where it holds,
\* one iteration of the loop
TraceStep(cells, current, visited, path_length) ==
    IF path_length >= max_path_length \/ current \in visited
    THEN Traced(TRUE, cells, current, visited, path_length)
    ELSE LET marked == [cells EXCEPT ![current].has_river = TRUE]
             neighbors == NeighborPositions(cells, current[1], current[2])
             lowest_neighbor == LowestOf(cells, neighbors, 2, neighbors[1])
         IN  IF Len(neighbors) = 0
             THEN Traced(TRUE, marked, current, visited \cup {current}, path_length)
             ELSE IF \/ cells[lowest_neighbor].elevation >= cells[current].elevation
                     \/ cells[lowest_neighbor].elevation < sea_level
             THEN Traced(TRUE, marked, current, visited \cup {current}, path_length)
             ELSE Traced(FALSE,
                         [marked EXCEPT ![lowest_neighbor].river_entry_sides =
                             @ \cup {EntrySide(lowest_neighbor[1] - current[1],
                                               lowest_neighbor[2] - current[2])}],
                         lowest_neighbor, visited \cup {current}, path_length + 1)

\* _trace_river: the while loop
RECURSIVE TraceRiverLoop(_, _, _, _)
TraceRiverFrom(st) ==
    IF st.done THEN st.cells
    ELSE TraceRiverLoop(st.cells, st.current, st.visited, st.path_length)

TraceRiverLoop(cells, current, visited, path_length) ==
    TraceRiverFrom(TraceStep(cells, current, visited, path_length))

_trace_river(cells, source) == TraceRiverLoop(cells, source, {}, 0)

IsRiverSource(cell) ==
    /\ cell.elevation > Lit(60)
    /\ cell.biome \in {"mountains", "hills"}
    /\ cell.moisture > Lit(40)

RECURSIVE TraceAll(_, _, _)
TraceAll(cells, sources, i) ==
    IF i > Len(sources) \/ i > MaxRivers THEN cells
    ELSE LET traced == _trace_river(cells, sources[i])
         IN  After(traced, TraceAll(traced, sources, i + 1))

\* river_sources: the positions of the sources in the order of self.cells
RiverSources(cells, w, h) ==
    LET IsSource(p) == IsRiverSource(cells[p])
    IN  SelectSeq(ScanOrder(w, h), IsSource)

_generate_rivers(cells, w, h) == TraceAll(cells, RiverSources(cells, w, h), 1)

_mark_sea_borders(cells) ==
    Table([p \in DOMAIN cells |->
        LET cell == cells[p]
            neighbors == SeqRange(NeighborPositions(cells, p[1], p[2]))
        IN  IF /\ cell.elevation >= sea_level
               /\ \E q \in neighbors : cells[q].elevation < sea_level
            THEN [cell EXCEPT !.is_sea_border = TRUE]
            ELSE cell])

IsSettlementCandidate(cell) ==
    /\ cell.elevation >= sea_level
    /\ cell.biome \in {"grassland", "forest", "beach"}
    /\ (cell.is_sea_border \/ cell.has_river)

SettlementScore(cell) == cell.moisture + (IF cell.is_sea_border THEN Scale \div 2 ELSE 0)

\* the candidates sorted without reverse = True: lowest score first
SortedCandidatesAscending(cells, cands) ==
    LET n == Len(cands)
        Before(i, j) ==
            \/ SettlementScore(cells[cands[i]]) < SettlementScore(cells[cands[j]])
            \/ /\ SettlementScore(cells[cands[i]]) = SettlementScore(cells[cands[j]])
               /\ i < j
        Rank(j) == 1 + Cardinality({i \in 1..n : Before(i, j)})
    IN  [r \in 1..n |-> cands[CHOOSE j \in 1..n : Rank(j) = r]]

\* list.sort(key, reverse = True): stable, so position i of the candidates goes
\* after every candidate of higher score and every earlier one of equal score
SortedCandidates(cells, cands) ==
    LET n == Len(cands)
        Before(i, j) ==
            \/ SettlementScore(cells[cands[i]]) > SettlementScore(cells[cands[j]])
            \/ /\ SettlementScore(cells[cands[i]]) = SettlementScore(cells[cands[j]])
               /\ i < j
        Rank(j) == 1 + Cardinality({i \in 1..n : Before(i, j)})
    IN  [r \in 1..n |-> cands[CHOOSE j \in 1..n : Rank(j) = r]]

\* the loop over settlement_candidates[:20]: two draws per settlement
RECURSIVE Settle(_, _, _, _)
Settle(cells, sorted, i, rng) ==
    IF i > Len(sorted) \/ i > MaxSettlements THEN cells
    ELSE LET cell == cells[sorted[i]]
             s1 == RngNext(rng)
             s2 == RngNext(s1)
             base_population == RandInt(s1, 100, 1000)
             bonus0 == Scale + cell.moisture \div 2
             bonus1 == IF cell.is_sea_border THEN (bonus0 * 3) \div 2 ELSE bonus0
             population_bonus == IF cell.has_river THEN (bonus1 * 6) \div 5 ELSE bonus1
             population == (base_population * population_bonus) \div Scale
             wealth == (population * Uniform(s2, Scale \div 2, 2 * Scale)) \div Scale
             settled == [cells EXCEPT ![sorted[i]].population = population,
                                      ![sorted[i]].wealth = wealth]
         IN  After(settled, Settle(settled, sorted, i + 1, s2))

_generate_settlements(cells, w, h, rng) ==
    LET IsCand(p) == IsSettlementCandidate(cells[p])
        settlement_candidates == SelectSeq(ScanOrder(w, h), IsCand)
    IN  Settle(cells, SortedCandidates(cells, settlement_candidates), 1, rng)

\* _generate_world: the nine phases; the world's generator gives one draw per
\* cell to the temperature phase, then one per cell to the moisture phase,
\* then two per settlement
\* phases 7 to 9, on the cells c6 that phase 6 left
RiversToSettlements(c6, w, h, seed) ==
    LET n == IF w <= 0 \/ h <= 0 THEN 0 ELSE w * h
        c7 == _generate_rivers(c6, w, h)
        c8 == _mark_sea_borders(c7)
    IN  After(c7, _generate_settlements(c8, w, h, RngAdvance(RngSeed(seed), 2 * n)))

\* phases 1 to 6
ElevationToLandforms(w, h, seed) ==
    LET n == IF w <= 0 \/ h <= 0 THEN 0 ELSE w * h
        rng0 == RngSeed(seed)
        c1 == _generate_elevation(w, h, seed)
        c2 == _generate_temperature(c1, w, h, rng0)
        c3 == _generate_moisture(c2, w, h, RngAdvance(rng0, n))
        c4 == _determine_climates(c3)
        c5 == _determine_biomes(c4)
    IN  After(c1, After(c2, After(c3, _classify_landforms(c5))))

_generate_world(w, h, seed) ==
    RiversToSettlements(ElevationToLandforms(w, h, seed), w, h, seed)

\* MacroWorldMap.__init__(width, height, seed), where drawn is what
\* random.randint(0, 2**32 - 1) returns if it is called: the object, or the
\* exception raised
SeedUsed(seed, drawn) == IF seed = 0 THEN drawn ELSE seed

MacroWorldMap(width, height, seed, drawn) ==
    LET self_seed == SeedUsed(seed, drawn)
        made(status, cells) ==
            [status |-> status, width |-> width, height |-> height,
             seed_arg |-> seed, seed |-> self_seed, cells |-> cells]
    IN  IF self_seed < 0 THEN made("ValueError", <<>>)             \* np.random.seed
        ELSE IF TemperatureRaises(width, height) THEN made("ZeroDivisionError", <<>>)
        ELSE made("ok", _generate_world(width, height, self_seed))

(***************************************************************************)
(* map_generator.py: ChunkCoords and MapGenerator                          *)
(***************************************************************************)
ChunkCoords(macro_x, macro_y, chunk_x, chunk_y) ==
    [macro_x |-> macro_x, macro_y |-> macro_y, chunk_x |-> chunk_x, chunk_y |-> chunk_y]

ChunkKey(coords) == <<coords.macro_x, coords.macro_y, coords.chunk_x, coords.chunk_y>>

\* MacroCell(x=..., y=..., elevation=-0.5): the cell made up for a missing one;
\* first, a cell made up above sea level
DefaultLandCell(x, y) == MacroCell(x, y, Scale \div 2)

DefaultOceanCell(x, y) == MacroCell(x, y, -(Scale \div 2))

OwnerCell(cells, macro_x, macro_y) ==
    LET macro_cell == get_cell(cells, macro_x, macro_y)
    IN  IF Len(macro_cell) = 0 THEN DefaultOceanCell(macro_x, macro_y) ELSE macro_cell[1]

Directions ==
    [north |-> <<0, -1>>, south |-> <<0, 1>>, east |-> <<1, 0>>, west |-> <<-1, 0>>,
     northeast |-> <<1, -1>>, northwest |-> <<-1, -1>>,
     southeast |-> <<1, 1>>, southwest |-> <<-1, 1>>]

_get_macro_neighbors(cells, macro_x, macro_y) ==
    Table([direction \in DOMAIN Directions |->
        LET dx == Directions[direction][1]
            dy == Directions[direction][2]
            neighbor == get_cell(cells, macro_x + dx, macro_y + dy)
        IN  IF Len(neighbor) > 0 THEN neighbor[1]
            ELSE DefaultOceanCell(macro_x + dx, macro_y + dy)])

\* the direction _blend_property averages with at blend factors
\* local_x / chunk_size and local_y / chunk_size, or "center"
BlendZone(local_x, local_y, chunk_size) ==
    LET lowx == 10 * local_x < chunk_size             \* blend_x < 0.1
        highx == 10 * local_x > 9 * chunk_size        \* blend_x > 0.9
        lowy == 10 * local_y < chunk_size
        highy == 10 * local_y > 9 * chunk_size
    IN  IF lowx /\ lowy THEN "northwest"
        ELSE IF highx /\ lowy THEN "northeast"
        ELSE IF lowx /\ highy THEN "southwest"
        ELSE IF highx /\ highy THEN "southeast"
        ELSE IF lowx THEN "west"
        ELSE IF highx THEN "east"
        ELSE IF lowy THEN "north"
        ELSE IF highy THEN "south"
        ELSE "center"

\* _blend_property for the three properties at once
_blend_property(center, neighbors, local_x, local_y, chunk_size) ==
    LET zone == BlendZone(local_x, local_y, chunk_size)
    IN  IF zone \in DOMAIN neighbors
        THEN [elevation |-> (center.elevation + neighbors[zone].elevation) \div 2,
              moisture |-> (center.moisture + neighbors[zone].moisture) \div 2,
              temperature |-> (center.temperature + neighbors[zone].temperature) \div 2]
        ELSE [elevation |-> center.elevation, moisture |-> center.moisture,
              temperature |-> center.temperature]

\* one octave of the elevation noise: units is scale * Turn, tenths the amplitude
MicroOctave(world_x, world_y, units, tenths) ==
    LET noise_value ==
            (Sin(world_x * units) * Cos(world_y * units)) \div Scale
            + ((Sin(world_x * 2 * units + Rad(15))
                * Cos(world_y * 2 * units + Rad(15))) \div Scale) \div 2
    IN  (noise_value * tenths) \div 10

_generate_elevation_noise(world_x, world_y) ==
    (MicroOctave(world_x, world_y, 1000, 6)
     + MicroOctave(world_x, world_y, 2000, 3)
     + MicroOctave(world_x, world_y, 4000, 1)) \div 10

_generate_moisture_noise(world_x, world_y) ==
    (Sin(world_x * 1500 + Rad(21)) + Cos(world_y * 1500 + Rad(37))) \div 4

\* the end of _generate_tile: the TileInfo built from the properties and the biome
TileOfBiome(world_x, world_y, height, moisture, temperature, biome) ==
    TileInfo(world_x, world_y,
             Tile(get_default_glyph_for_biome(biome), biome, height, moisture),
             temperature, biome \notin {"ocean", "river", "lake"})

_generate_tile(coords, local_x, local_y, macro_cell, neighbors, chunk_size) ==
    LET world_x == coords.macro_x * chunk_size + local_x
        world_y == coords.macro_y * chunk_size + local_y
        blend == _blend_property(macro_cell, neighbors, local_x, local_y, chunk_size)
        height == Max(-Scale, Min(Scale,
                      blend.elevation + _generate_elevation_noise(world_x, world_y)))
        moisture == Clamp01(blend.moisture
                            + (_generate_moisture_noise(world_x, world_y) * 2) \div 10)
        temperature == Clamp01(blend.temperature)
    IN  TileOfBiome(world_x, world_y, height, moisture, temperature,
                    determine_biome(height, moisture, temperature))

\* the keys of a chunk in insertion order: local_y outer, local_x inner
LocalOrder(chunk_size) == ScanOrder(chunk_size, chunk_size)

\* the keys the two range(self.chunk_size) loops give; first, ranges one too long
LocalCoordsInclusive(chunk_size) == (0..chunk_size) \X (0..chunk_size)

LocalCoords(chunk_size) == (0..(chunk_size - 1)) \X (0..(chunk_size - 1))

\* the loop that fills tiles
GenerateTiles(coords, macro_cell, neighbors, chunk_size) ==
    Table([p \in LocalCoords(chunk_size) |->
        _generate_tile(coords, p[1], p[2], macro_cell, neighbors, chunk_size)])

\* _apply_erosion: the tiles are visited in the given order and changed in
\* place; first, an erosion that classifies the tile anew from its new values
ErodeTileReclassify(tiles, p) ==
    LET tile_info == tiles[p]
        around == {q \in DOMAIN tiles :
                      /\ q # p
                      /\ Abs(q[1] - p[1]) <= 1
                      /\ Abs(q[2] - p[2]) <= 1}
        water_neighbors == Cardinality({q \in around : is_water(tiles[q])})
        erosion_factor == (water_neighbors * Lit(5)) \div 8
        old_tile == tile_info.tile
        new_height == Max(-Scale, old_tile.height - erosion_factor)
        new_moisture == Min(Scale, old_tile.moisture + erosion_factor \div 2)
        biome == determine_biome(new_height, new_moisture, tile_info.temperature)
    IN  IF is_water(tile_info) \/ water_neighbors = 0 THEN tiles
        ELSE [tiles EXCEPT ![p].tile =
                 Tile(get_default_glyph_for_biome(biome), biome, new_height, new_moisture)]

ErodeTile(tiles, p) ==
    LET tile_info == tiles[p]
        around == {q \in DOMAIN tiles :
                      /\ q # p
                      /\ Abs(q[1] - p[1]) <= 1
                      /\ Abs(q[2] - p[2]) <= 1}
        water_neighbors == Cardinality({q \in around : is_water(tiles[q])})
        \* water_neighbors / 8.0 * 0.05, and half of it
        erosion_factor == (water_neighbors * Lit(5)) \div 8
        old_tile == tile_info.tile
        new_height == Max(-Scale, old_tile.height - erosion_factor)
        new_moisture == Min(Scale, old_tile.moisture + erosion_factor \div 2)
    IN  IF is_water(tile_info) \/ water_neighbors = 0 THEN tiles
        ELSE [tiles EXCEPT ![p].tile =
                 Tile(old_tile.glyph, old_tile.biome, new_height, new_moisture)]

RECURSIVE ErodeLoop(_, _, _)
ErodeLoop(tiles, order, i) ==
    IF i > Len(order) THEN tiles
    ELSE LET eroded == ErodeTile(tiles, order[i])
         IN  After(eroded, ErodeLoop(eroded, order, i + 1))

_apply_erosion(tiles, chunk_size) == ErodeLoop(tiles, LocalOrder(chunk_size), 1)

MaxRiverLength == 100       \* for _ in range(100)

\* the river tile that replaces old_tile; first, one that keeps the height
RiverTileUncapped(old_tile) == Tile("~", "river", old_tile.height, Scale)

RiverTile(old_tile) == Tile("~", "river", Min(old_tile.height, Lit(5)), Scale)

\* the tile object at p replaced by a river tile, and made impassable; first,
\* a conversion that leaves passable as it was
ToRiverPassable(tiles, p) == [tiles EXCEPT ![p].tile = RiverTile(@)]

ToRiver(tiles, p) ==
    [tiles EXCEPT ![p].tile = RiverTile(@), ![p].passable = FALSE]

\* what widening skips: a neighbour that is a river already
WidenSkips(tile_info) == tile_info.tile.biome = "river"

\* the widening loop over the 8 neighbours of pos, from the i-th on; st holds
\* the tiles and the generator's state, and a log of the pass: path, the
\* positions the trace visited, in order, and widened, the positions that
\* widening converted
RECURSIVE WidenLoop(_, _, _)
WidenLoop(st, pos, i) ==
    IF i > Len(NeighborOffsets) THEN st
    ELSE LET neighbor_pos == <<pos[1] + NeighborOffsets[i][1], pos[2] + NeighborOffsets[i][2]>>
         IN  IF neighbor_pos \notin DOMAIN st.tiles THEN WidenLoop(st, pos, i + 1)
             ELSE LET s == RngNext(st.rng)
                      next == IF /\ Random(s) < Lit(50)
                                 /\ ~WidenSkips(st.tiles[neighbor_pos])
                              THEN [st EXCEPT !.tiles = ToRiver(@, neighbor_pos),
                                              !.rng = s,
                                              !.widened = @ \cup {neighbor_pos}]
                              ELSE [st EXCEPT !.rng = s]
                  IN  After(next, WidenLoop(next, pos, i + 1))

\* min(neighbors, key = height): the first position of least height
RECURSIVE LowestTile(_, _, _, _)
LowestTile(tiles, seq, i, best) ==
    IF i > Len(seq) THEN best
    ELSE LET next == IF tiles[seq[i]].tile.height < tiles[best].tile.height
                     THEN seq[i] ELSE best
         IN  After(next, LowestTile(tiles, seq, i + 1, next))

\* "Widen river occasionally": st holds the river tile at pos and the
\* generator's state after the draw that decides
Widen(st, pos) == IF Random(st.rng) < Lit(30) THEN WidenLoop(st, pos, 1) ELSE st

RECURSIVE TraceChunkLoop(_, _, _, _)

\* "Find next position": the rest of an iteration of the for loop, and the
\* iterations after it
TraceNext(widened, current_pos, seen, n) ==
    LET all == [i \in 1..Len(NeighborOffsets) |->
                   <<current_pos[1] + NeighborOffsets[i][1],
                     current_pos[2] + NeighborOffsets[i][2]>>]
        Downhill(q) ==
            /\ q \in DOMAIN widened.tiles
            /\ q \notin seen
            /\ widened.tiles[q].tile.height <= widened.tiles[current_pos].tile.height
        neighbors == SelectSeq(all, Downhill)
    IN  After(widened,
              IF Len(neighbors) = 0 THEN widened
              ELSE TraceChunkLoop(widened,
                                  LowestTile(widened.tiles, neighbors, 2, neighbors[1]),
                                  seen, n + 1))

\* _trace_chunk_river: the for loop, one iteration per call
TraceChunkLoop(st, current_pos, visited, n) ==
    IF n >= MaxRiverLength \/ current_pos \in visited \/ current_pos \notin DOMAIN st.tiles
    THEN st
    ELSE TraceNext(Widen([st EXCEPT !.tiles = ToRiver(@, current_pos),
                                    !.rng = RngNext(@),
                                    !.path = Append(@, current_pos)], current_pos),
                   current_pos, visited \cup {current_pos}, n)

_trace_chunk_river(st, start) == TraceChunkLoop(st, start, {}, 0)

\* max(high_points, key = height): the first position of greatest height
RECURSIVE HighestTile(_, _, _, _)
HighestTile(tiles, seq, i, best) ==
    IF i > Len(seq) THEN best
    ELSE LET next == IF tiles[seq[i]].tile.height > tiles[best].tile.height
                     THEN seq[i] ELSE best
         IN  After(next, HighestTile(tiles, seq, i + 1, next))

\* river_start where the macro cell names an entry side, from the randint drawn
EntryStart(sides, chunk_size, along) ==
    IF "north" \in sides THEN <<along, 0>>
    ELSE IF "south" \in sides THEN <<along, chunk_size - 1>>
    ELSE IF "west" \in sides THEN <<0, along>>
    ELSE <<chunk_size - 1, along>>

\* river_start where it names none: the highest point, if there is one
HighStart(tiles, chunk_size) ==
    LET IsHigh(p) == tiles[p].tile.height > Lit(30) /\ is_land(tiles[p])
        high_points == SelectSeq(LocalOrder(chunk_size), IsHigh)
    IN  IF Len(high_points) = 0 THEN <<>>
        ELSE <<HighestTile(tiles, high_points, 2, high_points[1])>>

\* "if river_start: self._trace_chunk_river(tiles, river_start, rng)"
TraceIfStart(st, river_start) ==
    IF Len(river_start) = 0 THEN st ELSE _trace_chunk_river(st, river_start[1])

\* _generate_rivers, called for a river-bearing macro cell
_generate_rivers_chunk(st, macro_cell, chunk_size) ==
    LET sides == macro_cell.river_entry_sides
        s == RngNext(st.rng)
        along == chunk_size \div 2 + RandInt(s, -5, 5)
        entered == sides \cap {"north", "south", "west", "east"} # {}
    IN  IF ~macro_cell.has_river THEN st
        ELSE TraceIfStart(IF entered THEN [st EXCEPT !.rng = s] ELSE st,
                          IF entered THEN <<EntryStart(sides, chunk_size, along)>>
                          ELSE HighStart(st.tiles, chunk_size))

\* rng.choice(seq)
Choice(s, seq) == seq[1 + (s * Len(seq)) \div RngMod]

\* what _place_resources requires of a tile before it considers it; first, a
\* pass that considers every tile
ResourceEligibleAny(tile_info) == TRUE

ResourceEligible(tile_info) == is_land(tile_info)

\* _place_resources for one tile
PlaceOne(st, p) ==
    LET tile_info == st.tiles[p]
        temp_tile_wrapper == TileInfo(tile_info.x, tile_info.y, tile_info.tile, Lit(50), TRUE)
        mining_richness == get_mining_richness(temp_tile_wrapper)
        s1 == RngNext(st.rng)
        s2 == RngNext(s1)
        s3 == RngNext(s2)
        s4 == RngNext(s3)
        put(resource_type, quantity, s) ==
            [st EXCEPT !.tiles[p] = set_resource(@, resource_type, quantity), !.rng = s]
    IN  IF ~ResourceEligible(tile_info) THEN st
        ELSE IF can_mine(temp_tile_wrapper) THEN
            IF Random(s1) < mining_richness \div 10 THEN
                IF tile_info.tile.biome = "mountains" THEN
                    LET resource_choices ==
                            IF Random(s2) < Lit(5)
                            THEN <<"iron_ore", "copper_ore", "silver_ore", "gold_ore">>
                            ELSE <<"iron_ore", "copper_ore", "silver_ore">>
                    IN  put(Choice(s3, resource_choices),
                            (RandInt(s4, 50, 200) * mining_richness) \div Scale, s4)
                ELSE put(Choice(s2, <<"stone", "clay", "iron_ore">>),
                         (RandInt(s3, 50, 200) * mining_richness) \div Scale, s3)
            ELSE [st EXCEPT !.rng = s1]
        ELSE IF tile_info.tile.biome = "forest" THEN
            IF Random(s1) < Lit(20) THEN put("wood", RandInt(s2, 20, 80), s2)
            ELSE [st EXCEPT !.rng = s1]
        ELSE IF tile_info.tile.biome = "beach" THEN
            IF Random(s1) < Lit(5) THEN put("salt", RandInt(s2, 10, 40), s2)
            ELSE [st EXCEPT !.rng = s1]
        ELSE st

RECURSIVE PlaceLoop(_, _, _)
PlaceLoop(st, order, i) ==
    IF i > Len(order) THEN st
    ELSE LET placed == PlaceOne(st, order[i])
         IN  After(placed, PlaceLoop(placed, order, i + 1))

_place_resources(st, chunk_size) == PlaceLoop(st, LocalOrder(chunk_size), 1)

\* the seed of the chunk's generator
ChunkSeed(seed, coords, seed_offset) ==
    seed + coords.macro_x * 1000 + coords.macro_y * 1000000
         + coords.chunk_x * 17 + coords.chunk_y * 23 + seed_offset

\* generate_chunk past the cache lookup: the tiles dict after each of the four
\* phases; the last is the chunk that is cached and returned
PhasesDone(tiles, eroded, rivers, placed) ==
    After(placed, [tiles |-> tiles, eroded |-> eroded.tiles, rivers |-> rivers.tiles,
                   placed |-> placed.tiles])

\* "Place resources"
PhaseResources(tiles, eroded, rivers, chunk_size) ==
    After(rivers, PhasesDone(tiles, eroded, rivers, _place_resources(rivers, chunk_size)))

\* "Generate rivers if macro cell has them"
PhaseRivers(tiles, eroded, macro_cell, chunk_size) ==
    After(eroded,
          PhaseResources(tiles, eroded,
                         IF macro_cell.has_river
                         THEN _generate_rivers_chunk(eroded, macro_cell, chunk_size)
                         ELSE eroded,
                         chunk_size))

\* "Apply erosion effects"
PhaseErosion(tiles, rng, macro_cell, chunk_size) ==
    After(tiles, PhaseRivers(tiles, [tiles |-> _apply_erosion(tiles, chunk_size),
                                     rng |-> rng, path |-> <<>>, widened |-> {}],
                             macro_cell, chunk_size))

\* "Generate base terrain for each tile in chunk"
PhaseTiles(coords, macro_cell, neighbors, rng, chunk_size) ==
    PhaseErosion(GenerateTiles(coords, macro_cell, neighbors, chunk_size),
                 rng, macro_cell, chunk_size)

GeneratePhases(macro_map, chunk_size, coords, seed_offset) ==
    PhaseTiles(coords,
               OwnerCell(macro_map.cells, coords.macro_x, coords.macro_y),
               _get_macro_neighbors(macro_map.cells, coords.macro_x, coords.macro_y),
               RngSeed(ChunkSeed(macro_map.seed, coords, seed_offset)),
               chunk_size)

(***************************************************************************)
(* What the variables of a specification hold in the other specifications. *)
(***************************************************************************)
\* a fresh tile on which no call was made
NoTile ==
    /\ ti = TileInfo(0, 0, Tile(".", "grassland", Lit(30), Lit(50)), Lit(50), TRUE)
    /\ tcall = [op |-> "init", amount |-> 0, before |-> ti, ret |-> 0]

\* no MapGenerator was constructed
NoGenerator ==
    /\ self_macro_map = <<>>
    /\ self_chunk_size = 0
    /\ self_chunks = <<>>
    /\ generated = <<>>
    /\ ret = <<>>

\* no Registry was constructed
NoRegistry ==
    /\ registry = <<>>
    /\ rcall = <<>>

\* no SaveManager was constructed
NoSaveManager ==
    /\ manager = <<>>
    /\ new_manager = <<>>
    /\ scall = <<>>

\* _generate_rivers is not running
NoRivers == river_frame = <<>>

\* generate_chunk is not running pass by pass
NoPasses == chunk_frame = <<>>

\* no Game was constructed
NoGame == game = <<>>

NoSupport == NoRegistry /\ NoSaveManager /\ NoRivers /\ NoPasses /\ NoGame

\* self.cells after the lookups of the cells at the positions seq, from the i-th on
RECURSIVE CellsAfterLookups(_, _, _)
CellsAfterLookups(cells, seq, i) ==
    IF i > Len(seq) THEN cells
    ELSE CellsAfterLookups(CellsAfterGet(cells, seq[i][1], seq[i][2]), seq, i + 1)

\* the positions generate_chunk looks up: the owner, then _get_macro_neighbors
\* in the order of its directions
ChunkLookups(coords) ==
    LET around == <<"north", "south", "east", "west",
                    "northeast", "northwest", "southeast", "southwest">>
    IN  << <<coords.macro_x, coords.macro_y>> >>
        \o [i \in 1..Len(around) |-> <<coords.macro_x + Directions[around[i]][1],
                                        coords.macro_y + Directions[around[i]][2]>>]

(***************************************************************************)
(* Spec: two MapGenerator objects "a" and "b" over one MacroWorldMap, with *)
(* the same chunk_size.  The macro map is one of a few constructed worlds, *)
(* the calls are generate_chunk and get_tile on either generator, for a    *)
(* few chunk coordinates inside and outside the grid, and the queries of   *)
(* the macro map.  The callers of "a" pass any seed_offset, the callers of *)
(* "b" leave it at its default.                                            *)
(***************************************************************************)
Generators == {"a", "b"}

\* the arguments (width, height, seed) of the constructed worlds: one with
\* land, sea and rivers, and one of two cells
WorldArgs == {<<5, 3, 1>>, <<1, 2, 2>>}

ChunkSizes == 1..MaxChunkSize

\* the coordinates asked for.  In the first world: a river source, a shore
\* cell, and a cell outside the grid next to the shore.  In the second: a cell
\* whose neighbours are all outside the grid too, a cell of the grid, and a
\* cell outside the grid next to it.
Requests == {ChunkCoords(2, 1, 0, 0), ChunkCoords(0, 1, 0, 0), ChunkCoords(-1, 1, 1, 0)}

SeedOffsets == {0, 1}

\* the seed_offset arguments passed to generator g
OffsetsPassed(g) == IF g = "a" THEN SeedOffsets ELSE {0}

Worlds == Table([a \in WorldArgs |-> MacroWorldMap(a[1], a[2], a[3], 0)])

\* GeneratePhases for the worlds, chunk sizes, coordinates and offsets above,
\* tabulated once
PhasesTable(built) ==
    Table([a \in WorldArgs \X ChunkSizes \X Requests \X SeedOffsets |->
              [macro_map |-> built[a[1]],
               phases |-> GeneratePhases(built[a[1]], a[2], a[3], a[4])]])

Phases == PhasesTable(Worlds)

\* GeneratePhases(macro_map, chunk_size, coords, seed_offset), read off the
\* table where the table has it
PhasesIn(table, macro_map, chunk_size, coords, seed_offset) ==
    LET a == << <<macro_map.width, macro_map.height, macro_map.seed_arg>>,
                chunk_size, coords, seed_offset >>
    IN  IF a \in DOMAIN table /\ macro_map = table[a].macro_map
        THEN table[a].phases
        ELSE GeneratePhases(macro_map, chunk_size, coords, seed_offset)

PhasesOf(macro_map, chunk_size, coords, seed_offset) ==
    PhasesIn(Phases, macro_map, chunk_size, coords, seed_offset)

\* the dict d with d[k] = v
Put(d, k, v) == [x \in DOMAIN d \cup {k} |-> IF x = k THEN v ELSE d[x]]

\* the count of k in the dict of counts
Count(counts, k) == IF k \in DOMAIN counts THEN counts[k] ELSE 0

\* chunk_key in self.chunks; first, a lookup that never finds the key
CacheHitNever(chunks, chunk_key) == FALSE

CacheHit(chunks, chunk_key) == chunk_key \in DOMAIN chunks

\* generate_chunk with one random stream for the whole generator instead of
\* one per chunk: what a chunk draws depends on how many chunks came before it
\* "Cache the chunk" and return it: the object made of the tiles generated,
\* and self.chunks, the macro grid and the counts of generations with it
StoreChunk(g, coords, seed_offset, tiles) ==
    LET chunk_key == ChunkKey(coords)
        n == Count(generated[g], chunk_key) + 1
        chunk == [id |-> <<g, chunk_key, n>>, tiles |-> tiles,
                  seed_offset |-> seed_offset]
    IN  [chunk |-> chunk, hit |-> FALSE,
         chunks |-> Put(self_chunks[g], chunk_key, chunk),
         cells |-> CellsAfterLookups(self_macro_map.cells, ChunkLookups(coords), 1),
         counts |-> Put(generated[g], chunk_key, n)]

generate_chunk_shared_rng(g, coords, seed_offset) ==
    IF ChunkKey(coords) \in DOMAIN self_chunks[g]
    THEN [chunk |-> self_chunks[g][ChunkKey(coords)], hit |-> TRUE,
          chunks |-> self_chunks[g], cells |-> self_macro_map.cells,
          counts |-> generated[g]]
    ELSE StoreChunk(g, coords, seed_offset,
                    PhasesOf(self_macro_map, self_chunk_size, coords,
                             (seed_offset + Cardinality(DOMAIN self_chunks[g])) % 2).placed)

\* generate_chunk(coords, seed_offset) on generator g: the object returned,
\* whether it came from the cache, and self.chunks, the macro grid and the
\* counts of generations after the call.
\* A chunk object is its identity id (the generator, the key, and which
\* generation of the key it is), its tiles, and the seed_offset it was made with.
generate_chunk(g, coords, seed_offset) ==
    IF CacheHit(self_chunks[g], ChunkKey(coords))
    THEN [chunk |-> self_chunks[g][ChunkKey(coords)], hit |-> TRUE,
          chunks |-> self_chunks[g], cells |-> self_macro_map.cells,
          counts |-> generated[g]]
    ELSE StoreChunk(g, coords, seed_offset,
                    PhasesOf(self_macro_map, self_chunk_size, coords, seed_offset).placed)

\* get_chunk(coords): self.chunks.get(chunk_key)
get_chunk(g, coords) ==
    IF ChunkKey(coords) \in DOMAIN self_chunks[g]
    THEN <<self_chunks[g][ChunkKey(coords)]>> ELSE <<>>

ChunkInit ==
    /\ NoSupport
    /\ NoTile
    /\ worlds = <<>>
    /\ \E a \in WorldArgs : self_macro_map = Worlds[a]
    /\ self_chunk_size \in ChunkSizes
    /\ self_chunks = [g \in Generators |-> <<>>]
    /\ generated = [g \in Generators |-> <<>>]
    /\ ret = [op |-> "__init__"]

\* the state after a generate_chunk call on g that gave r
Called(g, r) ==
    /\ self_chunks' = [self_chunks EXCEPT ![g] = r.chunks]
    /\ generated' = [generated EXCEPT ![g] = r.counts]
    /\ self_macro_map' = [self_macro_map EXCEPT !.cells = r.cells]

\* a caller's generate_chunk(coords, seed_offset) on g, which gave r
GenerateChunkCall(g, coords, seed_offset, r) ==
    /\ Called(g, r)
    /\ ret' = [op |-> "generate_chunk", g |-> g, coords |-> coords,
               seed_offset |-> seed_offset, chunk |-> r.chunk.id, hit |-> r.hit]

GenerateChunk ==
    \E g \in Generators, coords \in Requests :
      \E seed_offset \in OffsetsPassed(g) :
        /\ GenerateChunkCall(g, coords, seed_offset,
                             generate_chunk(g, coords, seed_offset))
        /\ UNCHANGED <<support_vars, self_chunk_size, tile_vars, worlds>>

\* the world coordinates asked of get_tile: two corners of each chunk whose
\* key get_tile can form
TileRequests ==
    {<<c.macro_x * self_chunk_size + d, c.macro_y * self_chunk_size + d>> :
        c \in {r \in Requests : r.chunk_x = 0 /\ r.chunk_y = 0},
        d \in {0, self_chunk_size - 1}}

\* world // self.chunk_size: Python's floor division
macro_coord(world, chunk_size) == world \div chunk_size

\* a remainder that takes the sign of the dividend, as C's % does
local_coord_truncated(world, chunk_size) ==
    IF world < 0 THEN -((-world) % chunk_size) ELSE world % chunk_size

\* world % self.chunk_size: Python's remainder, in 0..chunk_size-1
local_coord(world, chunk_size) == world % chunk_size

\* get_tile(world_x, world_y) on g, past get_chunk: cached is what get_chunk
\* gave, r what generate_chunk(coords) gives where it is called
GetTileCall(g, world_x, world_y, coords, cached, r) ==
    LET local_x == local_coord(world_x, self_chunk_size)
        local_y == local_coord(world_y, self_chunk_size)
        \* if not chunk: None, or a dict without entries
        missing == Len(cached) = 0 \/ DOMAIN cached[1].tiles = {}
        chunk == IF missing THEN r.chunk ELSE cached[1]
    IN  /\ IF missing THEN Called(g, r)
           ELSE UNCHANGED <<self_chunks, generated, self_macro_map>>
        /\ ret' = [op |-> "get_tile", g |-> g, world_x |-> world_x, world_y |-> world_y,
                   coords |-> coords, chunk |-> chunk.id,
                   tile |-> IF <<local_x, local_y>> \in DOMAIN chunk.tiles
                            THEN <<chunk.tiles[<<local_x, local_y>>]>> ELSE <<>>]
        /\ UNCHANGED <<support_vars, self_chunk_size, tile_vars, worlds>>

GetTile ==
    \E g \in Generators, w \in TileRequests :
        LET macro_x == macro_coord(w[1], self_chunk_size)
            macro_y == macro_coord(w[2], self_chunk_size)
            coords == ChunkCoords(macro_x, macro_y, 0, 0)
        IN  GetTileCall(g, w[1], w[2], coords, get_chunk(g, coords),
                        generate_chunk(g, coords, 0))

\* the macro coordinates asked of get_cell and get_neighbors
CellRequests == {<<c.macro_x, c.macro_y>> : c \in Requests}

GetCell ==
    \E p \in CellRequests :
        /\ ret' = [op |-> "get_cell", x |-> p[1], y |-> p[2],
                   cell |-> get_cell(self_macro_map.cells, p[1], p[2])]
        /\ self_macro_map' =
               [self_macro_map EXCEPT !.cells = CellsAfterGet(@, p[1], p[2])]
        /\ UNCHANGED <<support_vars, self_chunk_size, self_chunks, generated, tile_vars, worlds>>

GetNeighbors ==
    \E p \in CellRequests :
        LET all == [i \in 1..Len(NeighborOffsets) |->
                       <<p[1] + NeighborOffsets[i][1], p[2] + NeighborOffsets[i][2]>>]
        IN  /\ ret' = [op |-> "get_neighbors", x |-> p[1], y |-> p[2],
                       cells |-> NeighborPositions(self_macro_map.cells, p[1], p[2])]
            /\ self_macro_map' =
                   [self_macro_map EXCEPT !.cells = CellsAfterLookups(@, all, 1)]
            /\ UNCHANGED <<support_vars, self_chunk_size, self_chunks, generated, tile_vars, worlds>>

\* get_land_cells, get_water_cells, get_settlements: the positions of the
\* cells in the list returned
GetCells ==
    \E op \in {"get_land_cells", "get_water_cells", "get_settlements"} :
        LET cells == self_macro_map.cells
            Wanted(cell) ==
                CASE op = "get_land_cells" -> cell.elevation >= sea_level
                  [] op = "get_water_cells" -> cell.elevation < sea_level
                  [] op = "get_settlements" -> cell.population > 0
        IN  /\ ret' = [op |-> op, cells |-> {p \in DOMAIN cells : Wanted(cells[p])}]
            /\ UNCHANGED <<support_vars, self_macro_map, self_chunk_size, self_chunks, generated,
                           tile_vars, worlds>>

Next == GenerateChunk \/ GetTile \/ GetCell \/ GetNeighbors \/ GetCells

Spec == ChunkInit /\ [][Next]_vars

\* the chunk object generator g holds for the key
ChunkAt(g, chunk_key) == self_chunks[g][chunk_key]

CoordsOfKey(chunk_key) == ChunkCoords(chunk_key[1], chunk_key[2], chunk_key[3], chunk_key[4])

\* the four phases of the generation that made the chunk g holds for the key
PhasesAt(g, chunk_key) ==
    PhasesOf(self_macro_map, self_chunk_size, CoordsOfKey(chunk_key),
             ChunkAt(g, chunk_key).seed_offset)

\* (x, y) is a coordinate of the macro grid
InGrid(x, y) ==
    /\ 0 <= x /\ x < self_macro_map.width
    /\ 0 <= y /\ y < self_macro_map.height

RiverSourceKey == <<2, 1, 0, 0>>
ShoreKey == <<0, 1, 0, 0>>
OutsideKey == <<-1, 1, 1, 0>>

(***************************************************************************)
(* C1: on one MapGenerator, the tiles of a chunk key are generated at most *)
(* once, whatever generate_chunk and get_tile calls are made, and every    *)
(* later generate_chunk call with that key returns the very object that    *)
(* the first call stored.                                                  *)
(***************************************************************************)
C1_CacheIdempotence ==
    /\ \A g \in Generators : \A k \in DOMAIN generated[g] : generated[g][k] <= 1
    /\ \A g \in Generators : \A k \in DOMAIN self_chunks[g] : ChunkAt(g, k).id = <<g, k, 1>>
    /\ ret.op = "generate_chunk" =>
           /\ ret.chunk = <<ret.g, ChunkKey(ret.coords), 1>>
           /\ ret.chunk = ChunkAt(ret.g, ChunkKey(ret.coords)).id

\* generate_chunk was answered from the cache, with a seed_offset other than
\* the one the chunk was made with
C1_Witness ==
    /\ ret.op = "generate_chunk"
    /\ ret.hit
    /\ generated[ret.g][ChunkKey(ret.coords)] = 1
    /\ ret.seed_offset # ChunkAt(ret.g, ChunkKey(ret.coords)).seed_offset

(***************************************************************************)
(* C3: every chunk generate_chunk returns has exactly chunk_size *         *)
(* chunk_size entries, whose keys are the (x, y) with 0 <= x < chunk_size  *)
(* and 0 <= y < chunk_size; the erosion, river and resource phases neither *)
(* add nor remove a key.                                                   *)
(***************************************************************************)
C3_ChunkKeys ==
    \A g \in Generators : \A k \in DOMAIN self_chunks[g] :
        LET keys == {p \in (0..self_chunk_size) \X (0..self_chunk_size) :
                        p[1] < self_chunk_size /\ p[2] < self_chunk_size}
            phases == PhasesAt(g, k)
        IN  /\ DOMAIN ChunkAt(g, k).tiles = keys
            /\ Cardinality(DOMAIN ChunkAt(g, k).tiles) = self_chunk_size * self_chunk_size
            /\ DOMAIN phases.tiles = keys
            /\ DOMAIN phases.eroded = DOMAIN phases.tiles
            /\ DOMAIN phases.rivers = DOMAIN phases.eroded
            /\ DOMAIN phases.placed = DOMAIN phases.rivers
            /\ ChunkAt(g, k).tiles = phases.placed

\* a generator holds a chunk with a river and a resource, and a chunk of a
\* cell outside the grid
C3_Witness ==
    \E g \in Generators :
        /\ self_chunk_size >= 2
        /\ InGrid(2, 1)
        /\ {RiverSourceKey, OutsideKey} \subseteq DOMAIN self_chunks[g]
        /\ \E p \in DOMAIN ChunkAt(g, RiverSourceKey).tiles :
               ChunkAt(g, RiverSourceKey).tiles[p].tile.biome = "river"
        /\ \E p \in DOMAIN ChunkAt(g, RiverSourceKey).tiles :
               ChunkAt(g, RiverSourceKey).tiles[p].resource_quantity > 0

C5_OffsetHonoured ==
    ret.op = "generate_chunk" =>
        ChunkAt(ret.g, ChunkKey(ret.coords)).tiles =
            GeneratePhases(self_macro_map, self_chunk_size, ret.coords, ret.seed_offset).placed

(***************************************************************************)
(* C6: for a macro coordinate outside the grid, get_cell returns nothing,  *)
(* and generate_chunk completes with a synthesized cell of elevation -0.5, *)
(* moisture 0.5, temperature 0.5 and no river in the place of the owner    *)
(* and of each missing neighbour; when the owner and all eight neighbours  *)
(* are outside the grid, every tile of the chunk is OCEAN, impassable and  *)
(* without a resource.                                                     *)
(***************************************************************************)
Synthesized(cell, x, y) ==
    /\ cell.x = x /\ cell.y = y
    /\ cell.elevation = -(Scale \div 2)
    /\ cell.moisture = Scale \div 2
    /\ cell.temperature = Scale \div 2
    /\ ~cell.has_river /\ cell.river_entry_sides = {}

AllOutside(x, y) == \A dx \in {-1, 0, 1}, dy \in {-1, 0, 1} : ~InGrid(x + dx, y + dy)

C6_OutOfBounds ==
    /\ (ret.op = "get_cell" /\ ~InGrid(ret.x, ret.y)) => ret.cell = <<>>
    /\ \A g \in Generators : \A k \in DOMAIN self_chunks[g] :
           LET x == k[1]
               y == k[2]
               owner == OwnerCell(self_macro_map.cells, x, y)
               neighbors == _get_macro_neighbors(self_macro_map.cells, x, y)
               tiles == ChunkAt(g, k).tiles
           IN  /\ ~InGrid(x, y) => Synthesized(owner, x, y)
               /\ \A d \in DOMAIN Directions :
                      ~InGrid(x + Directions[d][1], y + Directions[d][2]) =>
                          Synthesized(neighbors[d], x + Directions[d][1], y + Directions[d][2])
               /\ Cardinality(DOMAIN tiles) = self_chunk_size * self_chunk_size
               /\ AllOutside(x, y) =>
                      \A p \in DOMAIN tiles :
                          /\ tiles[p].tile.biome = "ocean"
                          /\ ~tiles[p].passable
                          /\ tiles[p].resource_type = None
                          /\ tiles[p].resource_quantity = 0

\* in a grid of two cells: get_cell has just returned nothing for a
\* coordinate outside, and a generator holds the chunk of a coordinate whose
\* neighbours are all outside too, and the chunk of a coordinate outside with
\* neighbours inside
C6_Witness ==
    /\ self_macro_map.width = 1 /\ self_macro_map.height = 2
    /\ self_chunk_size >= 2
    /\ ret.op = "get_cell" /\ ~InGrid(ret.x, ret.y) /\ ret.cell = <<>>
    /\ AllOutside(2, 1) /\ ~AllOutside(-1, 1) /\ ~InGrid(-1, 1)
    /\ \E g \in Generators : {RiverSourceKey, OutsideKey} \subseteq DOMAIN self_chunks[g]

(***************************************************************************)
(* C7: once the MacroWorldMap constructor has returned, no get_cell,       *)
(* get_neighbors, get_land_cells, get_water_cells, get_settlements,        *)
(* generate_chunk or get_tile call changes the set of macro-grid           *)
(* coordinates or any field of a macro cell; the cells synthesized for     *)
(* coordinates outside the grid are never put into the grid.               *)
(***************************************************************************)
C7_MacroGridFrame == [][self_macro_map' = self_macro_map]_vars

\* generate_chunk has just made the chunk of a coordinate outside the grid,
\* and the grid is still the constructed one, without that coordinate
C7_Witness ==
    /\ ret.op = "generate_chunk" /\ ~ret.hit
    /\ ~InGrid(ret.coords.macro_x, ret.coords.macro_y)
    /\ <<ret.coords.macro_x, ret.coords.macro_y>> \notin DOMAIN self_macro_map.cells
    /\ self_macro_map.cells # <<>>
    /\ self_macro_map =
           Worlds[<<self_macro_map.width, self_macro_map.height, self_macro_map.seed_arg>>]

(***************************************************************************)
(* C9: in every chunk generate_chunk returns, after the tile, erosion,     *)
(* river and resource phases, a tile has height < 0.0 if and only if its   *)
(* biome is OCEAN, RIVER or LAKE.                                          *)
(***************************************************************************)
C9_SeaLevelMicro ==
    \A g \in Generators : \A k \in DOMAIN self_chunks[g] :
        \A p \in DOMAIN ChunkAt(g, k).tiles :
            LET tile == ChunkAt(g, k).tiles[p].tile
            IN  (tile.height < 0) <=> (tile.biome \in {"ocean", "river", "lake"})

(***************************************************************************)
(* C9, amended: right after the tile phase a tile has height < 0.0 if and  *)
(* only if its biome is OCEAN, and no tile is RIVER or LAKE.  In the chunk *)
(* returned, every OCEAN tile has height < 0.0, every RIVER tile has       *)
(* height <= 0.05, no tile is LAKE, and a tile with height < 0.0 is OCEAN, *)
(* RIVER, or a BEACH tile at -0.05 or above.                               *)
(***************************************************************************)
C9_SeaLevelByPhase ==
    \A g \in Generators : \A k \in DOMAIN self_chunks[g] :
        /\ \A p \in DOMAIN PhasesAt(g, k).tiles :
               LET tile == PhasesAt(g, k).tiles[p].tile
               IN  /\ (tile.height < 0) <=> (tile.biome = "ocean")
                   /\ tile.biome \notin {"river", "lake"}
        /\ \A p \in DOMAIN ChunkAt(g, k).tiles :
               LET tile == ChunkAt(g, k).tiles[p].tile
               IN  /\ tile.biome = "ocean" => tile.height < 0
                   /\ tile.biome = "river" => tile.height <= Lit(5)
                   /\ tile.biome # "lake"
                   /\ tile.height < 0 => tile.biome \in {"ocean", "river", "beach"}
                   /\ (tile.height < 0 /\ tile.biome = "beach") => tile.height >= -Lit(5)

\* a generator holds a chunk with a river tile at height 0.05 and a chunk
\* with a beach tile below sea level
C9_Witness ==
    \E g \in Generators :
        /\ {RiverSourceKey, ShoreKey} \subseteq DOMAIN self_chunks[g]
        /\ \E p \in DOMAIN ChunkAt(g, RiverSourceKey).tiles :
               LET tile == ChunkAt(g, RiverSourceKey).tiles[p].tile
               IN  tile.biome = "river" /\ tile.height = Lit(5)
        /\ \E p \in DOMAIN ChunkAt(g, ShoreKey).tiles :
               LET tile == ChunkAt(g, ShoreKey).tiles[p].tile
               IN  tile.biome = "beach" /\ tile.height < 0

(***************************************************************************)
(* SpecMacro: two MacroWorldMap objects are constructed, one after the     *)
(* other: the first from any width, height and seed, the second from any   *)
(* seed and the dimensions of the first.                                   *)
(***************************************************************************)
Widths == 0..MaxWidth
Heights == 0..MaxHeight
SeedArgs == (-1)..MaxSeed
DrawnSeeds == 1..MaxSeed

MacroInit ==
    /\ NoSupport
    /\ worlds = <<>>
    /\ NoTile
    /\ NoGenerator

Construct ==
    /\ Len(worlds) < 2
    /\ \E w \in Widths, h \in Heights, seed \in SeedArgs, drawn \in DrawnSeeds :
           \* random.randint is called for seed 0 only
           /\ seed # 0 => drawn = 1
           /\ Len(worlds) = 1 => (w = worlds[1].width /\ h = worlds[1].height)
           /\ worlds' = Append(worlds, MacroWorldMap(w, h, seed, drawn))
    /\ UNCHANGED <<support_vars, tile_vars, chunk_vars>>

MacroNext == Construct

SpecMacro == MacroInit /\ [][MacroNext]_vars

(***************************************************************************)
(* C2: two independently constructed macro grids with the same seed value  *)
(* passed to the constructor and the same dimensions have the same         *)
(* elevation and the same biome at every coordinate.                       *)
(***************************************************************************)
C2_Determinism ==
    \A i, j \in 1..Len(worlds) :
        (/\ worlds[i].status = "ok" /\ worlds[j].status = "ok"
         /\ worlds[i].seed_arg = worlds[j].seed_arg
         /\ worlds[i].width = worlds[j].width
         /\ worlds[i].height = worlds[j].height)
        => /\ DOMAIN worlds[i].cells = DOMAIN worlds[j].cells
           /\ \A p \in DOMAIN worlds[i].cells :
                  /\ worlds[i].cells[p].elevation = worlds[j].cells[p].elevation
                  /\ worlds[i].cells[p].biome = worlds[j].cells[p].biome

(***************************************************************************)
(* C8: in every constructed macro grid, for every cell, elevation < 0.0    *)
(* if and only if the biome is OCEAN, if and only if the landform is       *)
(* OCEAN; no macro cell has biome RIVER or LAKE.                           *)
(***************************************************************************)
C8_MacroSeaLevel ==
    \A i \in 1..Len(worlds) :
        worlds[i].status = "ok" =>
            \A p \in DOMAIN worlds[i].cells :
                LET cell == worlds[i].cells[p]
                IN  /\ (cell.elevation < 0) <=> (cell.biome = "ocean")
                    /\ (cell.elevation < 0) <=> (cell.landform = "ocean")
                    /\ cell.biome \notin {"river", "lake"}

\* a constructed grid with a cell below sea level, a cell above it, and a
\* cell that bears a river
C8_Witness ==
    \E i \in 1..Len(worlds) :
        /\ worlds[i].status = "ok"
        /\ \E p \in DOMAIN worlds[i].cells : worlds[i].cells[p].elevation < 0
        /\ \E p \in DOMAIN worlds[i].cells : worlds[i].cells[p].elevation >= Lit(10)
        /\ \E p \in DOMAIN worlds[i].cells : worlds[i].cells[p].has_river

(***************************************************************************)
(* C12: constructing the macro world with a non-positive width or height   *)
(* is rejected with an error at construction time: no grid is produced for *)
(* such a configuration.                                                   *)
(***************************************************************************)
C12_RejectsBadConfig ==
    \A i \in 1..Len(worlds) :
        (worlds[i].width <= 0 \/ worlds[i].height <= 0) => worlds[i].status # "ok"

(***************************************************************************)
(* C13: for every width >= 1, height >= 1 and seed, macro generation runs  *)
(* to completion without raising and yields exactly width * height cells,  *)
(* whose temperature and moisture lie in [0, 1]; in particular for grids   *)
(* of height 1 or width 1.  Stated here for the seeds numpy accepts        *)
(* (seed >= 0), so that a violation is one of generation itself.           *)
(***************************************************************************)
C13_GenerationCompletes ==
    \A i \in 1..Len(worlds) :
        (worlds[i].width >= 1 /\ worlds[i].height >= 1 /\ worlds[i].seed_arg >= 0) =>
            /\ worlds[i].status = "ok"
            /\ Cardinality(DOMAIN worlds[i].cells) = worlds[i].width * worlds[i].height
            /\ \A p \in DOMAIN worlds[i].cells :
                   /\ worlds[i].cells[p].temperature \in 0..Scale
                   /\ worlds[i].cells[p].moisture \in 0..Scale

(***************************************************************************)
(* SpecTile: set_resource and harvest_resource on one tile.                *)
(***************************************************************************)
ResourceTypes == {"wood", "salt", "stone", ""}

TileInit ==
    /\ NoSupport
    /\ NoTile
    /\ worlds = <<>>
    /\ NoGenerator

SetResource ==
    \E r \in ResourceTypes, q \in 0..MaxQty :
        /\ ti' = set_resource(ti, r, q)
        /\ tcall' = [op |-> "set_resource", amount |-> q, before |-> ti, ret |-> 0]
        /\ UNCHANGED <<support_vars, worlds, chunk_vars>>

HarvestResource ==
    \E amount \in (-MaxAmount)..MaxAmount :
        LET r == harvest_resource(ti, amount)
        IN  /\ r.tile.resource_quantity <= MaxQty + MaxAmount
            /\ ti' = r.tile
            /\ tcall' = [op |-> "harvest_resource", amount |-> amount,
                         before |-> ti, ret |-> r.ret]
            /\ UNCHANGED <<support_vars, worlds, chunk_vars>>

TileNext == SetResource \/ HarvestResource

SpecTile == TileInit /\ [][TileNext]_vars

(***************************************************************************)
(* C10: harvesting a >= 0 from a tile holding q > 0 of a resource returns  *)
(* min(a, q) and leaves q - min(a, q); the type becomes absent and the     *)
(* quantity 0 exactly when a >= q, otherwise the type is unchanged.  On a  *)
(* tile with no resource the call returns 0 and changes nothing.           *)
(***************************************************************************)
C10_Harvest ==
    tcall.op = "harvest_resource" =>
        LET b == tcall.before
            a == tcall.amount
            q == b.resource_quantity
        IN  /\ (Truthy(b.resource_type) /\ q > 0 /\ a >= 0) =>
                  /\ tcall.ret = Min(a, q)
                  /\ ti.resource_quantity = q - Min(a, q)
                  /\ (a >= q) <=> (ti.resource_type = None /\ ti.resource_quantity = 0)
                  /\ (a < q) => ti.resource_type = b.resource_type
                  /\ ti = [b EXCEPT !.resource_type = ti.resource_type,
                                    !.resource_quantity = ti.resource_quantity]
            /\ ~Truthy(b.resource_type) => (tcall.ret = 0 /\ ti = b)

\* a capped harvest that clears the resource: the test's second harvest
C10_Witness ==
    /\ tcall.op = "harvest_resource"
    /\ Truthy(tcall.before.resource_type)
    /\ tcall.before.resource_quantity > 0
    /\ tcall.amount > tcall.before.resource_quantity
    /\ tcall.ret = tcall.before.resource_quantity
    /\ ti.resource_type = None

(***************************************************************************)
(* SpecSettle: _generate_settlements on the grid phases 1 to 8 left.  The  *)
(* grids generated within MaxWidth by MaxHeight hold fewer cells than      *)
(* MaxSettlements, so the cells are drawn here: a grid of up to            *)
(* MaxRegionWidth by MaxHeight cells, of which every `every`-th is no      *)
(* candidate (ocean, or desert on the shore) and the others are land of a  *)
(* settled biome on the shore or on a river, with few distinct moistures   *)
(* so that candidates tie.                                                 *)
(***************************************************************************)
DrawnCell(x, y, i, seed, every) ==
    LET s == RngNext(RngSeed(seed * 31 + i))
        is_sea_border == (s \div 15) % 2 = 0
        land == [MacroCell(x, y, Lit(10) + (s % 100)) EXCEPT
                    !.landform = "plains", !.moisture = (s % 5) * Lit(20)]
    IN  IF every # 0 /\ (i + 1) % every = 0
        THEN IF s % 2 = 0 THEN MacroCell(x, y, -Lit(50))
             ELSE [land EXCEPT !.biome = "desert", !.is_sea_border = TRUE]
        ELSE [land EXCEPT
                 !.biome = <<"grassland", "forest", "beach">>[1 + ((s \div 5) % 3)],
                 !.is_sea_border = is_sea_border,
                 !.has_river = (~is_sea_border) \/ ((s \div 30) % 2 = 0)]

DrawnCells(w, h, seed, every) ==
    Table([p \in GridCoords(w, h) |-> DrawnCell(p[1], p[2], ScanIndex(w, p), seed, every)])

\* one cell in `every` is no candidate; 0: every cell is one, 1: none is
Everies == {0, 1, 2, 5}

SettleInit ==
    /\ NoSupport
    /\ NoTile
    /\ NoGenerator
    /\ \E w \in 1..MaxRegionWidth, h \in 1..MaxHeight, seed \in 1..MaxSeed, every \in Everies :
           worlds = <<[status |-> "phase 8", width |-> w, height |-> h, seed_arg |-> seed,
                       seed |-> seed, cells |-> DrawnCells(w, h, seed, every)]>>

\* phase 9 of _generate_world, after two draws per cell by phases 2 and 3
GenerateSettlements ==
    /\ worlds[1].status = "phase 8"
    /\ worlds' = <<[worlds[1] EXCEPT
                      !.status = "ok",
                      !.cells = _generate_settlements(
                                    @, worlds[1].width, worlds[1].height,
                                    RngAdvance(RngSeed(worlds[1].seed),
                                               2 * worlds[1].width * worlds[1].height))]>>
    /\ UNCHANGED <<support_vars, tile_vars, chunk_vars>>

SettleNext == GenerateSettlements

SpecSettle == SettleInit /\ [][SettleNext]_vars

\* the cells of a grid that satisfy the three conditions of a candidate
CandidatesOf(cells) ==
    {p \in DOMAIN cells :
        /\ cells[p].elevation >= 0
        /\ cells[p].biome \in {"grassland", "forest", "beach"}
        /\ (cells[p].is_sea_border \/ cells[p].has_river)}

\* moisture + (0.5 if sea-border)
ScoreOf(cell) == cell.moisture + (IF cell.is_sea_border THEN Lit(50) ELSE 0)

SettledOf(cells) == {p \in DOMAIN cells : cells[p].population > 0}

(***************************************************************************)
(* C15: after construction the cells with population > 0 are exactly the   *)
(* top min(20, n) of the n settlement candidates by moisture + (0.5 if     *)
(* sea-border): each settled cell is land of biome grassland, forest or    *)
(* beach, on the shore or on a river; there are min(20, n) of them; no     *)
(* candidate left out scores strictly higher than a settled one; with no   *)
(* candidate there is no settlement and construction still succeeds.       *)
(***************************************************************************)
C15_Settlements ==
    \A i \in 1..Len(worlds) :
        worlds[i].status = "ok" =>
            LET cells == worlds[i].cells
                candidates == CandidatesOf(cells)
                settled == SettledOf(cells)
            IN  /\ settled \subseteq candidates
                /\ Cardinality(settled) = Min(20, Cardinality(candidates))
                /\ \A p \in settled, q \in candidates \ settled :
                       ScoreOf(cells[q]) <= ScoreOf(cells[p])

\* more than 20 candidates, 20 of them settled, one left out that scores lower
C15_Witness ==
    /\ Len(worlds) = 1
    /\ worlds[1].status = "ok"
    /\ Cardinality(CandidatesOf(worlds[1].cells)) > 20
    /\ Cardinality(SettledOf(worlds[1].cells)) = 20
    /\ \E p \in SettledOf(worlds[1].cells),
          q \in CandidatesOf(worlds[1].cells) \ SettledOf(worlds[1].cells) :
           ScoreOf(worlds[1].cells[q]) < ScoreOf(worlds[1].cells[p])

\* a grid without a candidate was left without a settlement
C15_WitnessNone ==
    /\ Len(worlds) = 1
    /\ worlds[1].status = "ok"
    /\ DOMAIN worlds[1].cells # {}
    /\ CandidatesOf(worlds[1].cells) = {}

(***************************************************************************)
(* SpecNeighbors: get_neighbors(x, y, distance) on a generated grid, at    *)
(* positions in the grid and one step outside it.                          *)
(***************************************************************************)
\* the offsets along one axis only: no diagonal neighbours
NeighborOffsetsCross(distance) ==
    LET side == 2 * distance + 1
        all == [k \in 1..(IF distance < 0 THEN 0 ELSE side * side) |->
                   <<((k - 1) \div side) - distance, ((k - 1) % side) - distance>>]
        Kept(o) == o # <<0, 0>> /\ (o[1] = 0 \/ o[2] = 0)
    IN  SelectSeq(all, Kept)

\* the offsets (dx, dy) of the two loops over range(-distance, distance + 1),
\* dx outer, dy inner, without (0, 0)
NeighborOffsetsWithin(distance) ==
    LET side == 2 * distance + 1
        all == [k \in 1..(IF distance < 0 THEN 0 ELSE side * side) |->
                   <<((k - 1) \div side) - distance, ((k - 1) % side) - distance>>]
        Kept(o) == o # <<0, 0>>
    IN  SelectSeq(all, Kept)

\* get_neighbors(x, y, distance): the positions of the cells in the list
get_neighbors(cells, x, y, distance) ==
    LET offsets == NeighborOffsetsWithin(distance)
        all == [i \in 1..Len(offsets) |-> <<x + offsets[i][1], y + offsets[i][2]>>]
        Found(neighbor_pos) == neighbor_pos \in DOMAIN cells
    IN  SelectSeq(all, Found)

\* the grids: height 1 raises in phase 2
NeighborsInit ==
    /\ NoSupport
    /\ NoTile
    /\ worlds = <<>>
    /\ \E w \in 1..MaxWidth, h \in 2..MaxHeight :
           self_macro_map = MacroWorldMap(w, h, 1, 0)
    /\ self_chunk_size = 0
    /\ self_chunks = <<>>
    /\ generated = <<>>
    /\ ret = [op |-> "__init__"]

GetNeighborsWithin ==
    \E x \in (-1)..self_macro_map.width, y \in (-1)..self_macro_map.height,
       distance \in 0..MaxDistance :
        /\ ret' = [op |-> "get_neighbors", x |-> x, y |-> y, distance |-> distance,
                   cells |-> get_neighbors(self_macro_map.cells, x, y, distance)]
        /\ UNCHANGED <<support_vars, self_macro_map, self_chunk_size, self_chunks, generated,
                       tile_vars, worlds>>

NeighborsNext == GetNeighborsWithin

SpecNeighbors == NeighborsInit /\ [][NeighborsNext]_vars

\* max(|x1 - x2|, |y1 - y2|)
Chebyshev(p, q) == Max(Abs(p[1] - q[1]), Abs(p[2] - q[2]))

(***************************************************************************)
(* C16: get_neighbors(x, y, d) returns exactly the grid cells at Chebyshev *)
(* distance 1..d from (x, y), each once and never (x, y) itself; with      *)
(* d = 1 on a grid of at least 3 by 3 cells an interior cell has 8         *)
(* neighbours, a border cell that is no corner has 5, and a corner has 3.  *)
(***************************************************************************)
C16_Neighbors ==
    (ret.op = "get_neighbors" /\ "distance" \in DOMAIN ret) =>
        LET w == self_macro_map.width
            h == self_macro_map.height
            at == <<ret.x, ret.y>>
            got == ret.cells
            on_x == ret.x \in {0, w - 1}
            on_y == ret.y \in {0, h - 1}
        IN  /\ SeqRange(got) =
                   {p \in DOMAIN self_macro_map.cells :
                       Chebyshev(p, at) >= 1 /\ Chebyshev(p, at) <= ret.distance}
            /\ Cardinality(SeqRange(got)) = Len(got)
            /\ at \notin SeqRange(got)
            /\ (ret.distance = 1 /\ w >= 3 /\ h >= 3 /\ at \in DOMAIN self_macro_map.cells) =>
                   Len(got) = (IF on_x /\ on_y THEN 3 ELSE IF on_x \/ on_y THEN 5 ELSE 8)

\* the neighbours at distance 2 of a corner of a grid of at least 3 by 3 cells
C16_Witness ==
    /\ ret.op = "get_neighbors" /\ "distance" \in DOMAIN ret
    /\ ret.distance = 2
    /\ ret.x = 0 /\ ret.y = 0
    /\ self_macro_map.width >= 3 /\ self_macro_map.height >= 3
    /\ Len(ret.cells) = 8

(***************************************************************************)
(* SpecRivers: phase 7 of _generate_world, one iteration of the loop of    *)
(* _trace_river per step.  The grids generated within MaxWidth by          *)
(* MaxHeight hold fewer cells than a trace may visit and fewer sources     *)
(* than MaxRivers, so besides them phase 7 runs on drawn grids: planes     *)
(* top - a * x - b * y of elevations within the range phase 1 gives,       *)
(* classified as phases 5 and 6 classify them.                             *)
(***************************************************************************)
Slope(x, y, elevation) ==
    [MacroCell(x, y, elevation) EXCEPT
        !.biome = determine_biome(elevation, Lit(50), Lit(50))]

DrawnSlope(w, h, a, b, top) ==
    _classify_landforms(
        Table([p \in GridCoords(w, h) |-> Slope(p[1], p[2], top - a * p[1] - b * p[2])]))

\* <<w, h, a, b, top>>: a long slope to the east, a slope to the west with
\* more sources than rivers, one to the south, one to the north, a plateau,
\* a slope into the sea, and a long slope with a source in its first column only
SlopeArgs ==
    {<<MaxStripWidth, 2, 1, -2, Lit(80) - 2>>, <<12, 2, -1, -2, Lit(80) - 13>>,
     <<1, 3, 0, 1, Lit(80)>>, <<1, 3, 0, -1, Lit(80) - 2>>,
     <<4, 2, 0, 0, Lit(78)>>, <<5, 2, 70, -2, Lit(80) - 2>>,
     <<MaxStripWidth, 2, 1, 0, Lit(60) + 1>>}

\* <<w, h, seed>> of the generated grids
GeneratedArgs == {<<MaxWidth, MaxHeight, seed>> : seed \in 1..MaxSeed}

\* the frame when _generate_rivers is entered
RiversEntered(w, h, cells) ==
    [pc |-> "start", width |-> w, height |-> h, cells |-> cells, river_sources |-> <<>>,
     i |-> 0, current |-> <<0, 0>>, visited |-> {}, path_length |-> 0,
     revisit |-> FALSE, traced |-> <<>>, marks |-> <<>>, stepped |-> {}]

RiversInit ==
    /\ NoTile
    /\ worlds = <<>>
    /\ NoGenerator
    /\ NoRegistry
    /\ NoSaveManager
    /\ NoPasses
    /\ NoGame
    /\ \/ \E a \in SlopeArgs :
              river_frame = RiversEntered(a[1], a[2], DrawnSlope(a[1], a[2], a[3], a[4], a[5]))
       \/ \E a \in GeneratedArgs :
              river_frame = RiversEntered(a[1], a[2], ElevationToLandforms(a[1], a[2], a[3]))

RiversIdle == UNCHANGED <<tile_vars, worlds, chunk_vars, ecs_vars, save_vars, loop_vars>>

\* the loop that collects river_sources
FindSources ==
    /\ river_frame.pc = "start"
    /\ river_frame' = [river_frame EXCEPT
                          !.pc = "sources",
                          !.river_sources = RiverSources(river_frame.cells,
                                                         river_frame.width,
                                                         river_frame.height),
                          !.i = 1]
    /\ RiversIdle

\* for source in river_sources[:10]: self._trace_river(source), up to the loop
StartTrace ==
    /\ river_frame.pc = "sources"
    /\ river_frame.i <= Len(river_frame.river_sources)
    /\ river_frame.i <= MaxRivers
    /\ river_frame' = [river_frame EXCEPT
                          !.pc = "trace",
                          !.current = river_frame.river_sources[river_frame.i],
                          !.visited = {},
                          !.path_length = 0,
                          !.revisit = FALSE,
                          !.traced = Append(@, river_frame.river_sources[river_frame.i])]
    /\ RiversIdle

\* the frame after the step st of the loop
TraceStepped(st) ==
    IF st.done
    THEN river_frame' = [river_frame EXCEPT
                            !.pc = "sources",
                            !.i = @ + 1,
                            !.cells = st.cells,
                            !.visited = st.visited,
                            !.revisit = river_frame.current \in river_frame.visited,
                            !.marks = Append(@, Cardinality(st.visited))]
    ELSE river_frame' = [river_frame EXCEPT
                            !.cells = st.cells,
                            !.current = st.current,
                            !.visited = st.visited,
                            !.path_length = st.path_length,
                            !.stepped = @ \cup {st.current}]

TraceIteration ==
    /\ river_frame.pc = "trace"
    /\ TraceStepped(TraceStep(river_frame.cells, river_frame.current,
                              river_frame.visited, river_frame.path_length))
    /\ RiversIdle

\* the loop over river_sources[:10] is over
FinishRivers ==
    /\ river_frame.pc = "sources"
    /\ (river_frame.i > Len(river_frame.river_sources) \/ river_frame.i > MaxRivers)
    /\ river_frame' = [river_frame EXCEPT !.pc = "done"]
    /\ RiversIdle

RiversNext == FindSources \/ StartTrace \/ TraceIteration \/ FinishRivers

SpecRivers == RiversInit /\ [][RiversNext]_vars

\* the interpreter runs the loops on: no step that can be taken is put off
\* for ever
SpecRiversFair == SpecRivers /\ WF_vars(RiversNext)

\* the cells in grid scan order with elevation > 0.6, biome mountains or
\* hills, and moisture > 0.4
SourceCandidates(f) ==
    LET Eligible(p) ==
            /\ f.cells[p].elevation > Lit(60)
            /\ f.cells[p].biome \in {"mountains", "hills"}
            /\ f.cells[p].moisture > Lit(40)
        \* row by row from y = 0, each row from x = 0
        scan == [k \in 1..(f.width * f.height) |->
                    <<(k - 1) % f.width, (k - 1) \div f.width>>]
    IN  SelectSeq(scan, Eligible)

\* the grid cells next to p
Around(f, p) == {q \in DOMAIN f.cells : Chebyshev(p, q) = 1}

\* the bounds of the traces, and why the trace that ended last ended
RiverBounds(f) ==
    /\ Len(f.traced) <= 10
    /\ f.traced = SubSeq(SourceCandidates(f), 1, Len(f.traced))
    /\ f.pc = "done" => Len(f.traced) = Min(10, Len(SourceCandidates(f)))
    /\ Cardinality(f.visited) <= 50
    /\ Cardinality({p \in DOMAIN f.cells : f.cells[p].has_river}) <= 10 * 50
    /\ \A k \in 1..Len(f.marks) : f.marks[k] <= 50
    /\ (f.pc = "sources" /\ Len(f.marks) >= 1) =>
           \/ f.path_length = 50
           \/ f.revisit
           \/ \A q \in Around(f, f.current) :
                  f.cells[q].elevation >= f.cells[f.current].elevation
           \/ \E q \in Around(f, f.current) :
                  /\ f.cells[q].elevation < 0
                  /\ \A r \in Around(f, f.current) :
                         f.cells[r].elevation >= f.cells[q].elevation

(***************************************************************************)
(* C19: macro river generation always terminates.  At most 10 traces are   *)
(* started, from the first 10 cells in grid scan order with elevation >    *)
(* 0.6, biome mountains or hills and moisture > 0.4; each trace marks at   *)
(* most 50 cells and ends, without an error, when no neighbour is strictly *)
(* lower, when the lowest neighbour is below sea level, on a revisit, or   *)
(* after 50 steps.                                                         *)
(***************************************************************************)
C19_RiversTerminate ==
    /\ <>(river_frame.pc = "done")
    /\ [](RiverBounds(river_frame))

\* generation ended on a grid with more than 10 sources, after 10 traces of
\* which one marked 50 cells and took 50 steps
C19_Witness ==
    /\ river_frame.pc = "done"
    /\ Len(SourceCandidates(river_frame)) > 10
    /\ Len(river_frame.traced) = 10
    /\ river_frame.marks[1] = 50

\* the side of n that faces c, north being y - 1
FacingSide(c, n) ==
    IF n[1] > c[1] THEN "west"
    ELSE IF n[1] < c[1] THEN "east"
    ELSE IF n[2] > c[2] THEN "north"
    ELSE "south"

\* what a step of phase 7 from the frame f to the frame g does to the entry sides
EntrySidesStep(f, g) ==
    /\ IF f.pc = "trace" /\ g.pc = "trace"
       THEN /\ g.cells[g.current].river_entry_sides =
                   f.cells[g.current].river_entry_sides \cup {FacingSide(f.current, g.current)}
            /\ \A p \in DOMAIN f.cells \ {g.current} :
                   g.cells[p].river_entry_sides = f.cells[p].river_entry_sides
       ELSE \A p \in DOMAIN f.cells :
                   g.cells[p].river_entry_sides = f.cells[p].river_entry_sides
    /\ \A p \in DOMAIN g.cells \ g.stepped : g.cells[p].river_entry_sides = {}

(***************************************************************************)
(* C20: when a trace steps from a cell c to the neighbour n, one side is   *)
(* added to n.river_entry_sides, the side of n that faces c with north     *)
(* being y - 1: west if n.x > c.x, east if n.x < c.x, north if n is        *)
(* directly below c, south if directly above; no other cell's entry sides  *)
(* change, and a cell no trace stepped into has no entry side.             *)
(***************************************************************************)
C20_EntrySides == [][EntrySidesStep(river_frame, river_frame')]_vars

\* a trace has just stepped into the cell directly above, which it entered
\* from the south
C20_Witness ==
    /\ river_frame.pc = "trace"
    /\ river_frame.path_length >= 1
    /\ river_frame.width = 1
    /\ river_frame.current \in river_frame.stepped
    /\ river_frame.cells[river_frame.current].river_entry_sides = {"south"}

(***************************************************************************)
(* SpecGetTile: get_tile on one generator at world coordinates on both     *)
(* sides of zero.                                                          *)
(***************************************************************************)
\* the world coordinates asked for: negative ones, zero, and positive ones
WorldCoords == {<<world_x, world_y>> : world_x \in (-2)..1, world_y \in (-1)..0}

GetTileAt ==
    \E w \in WorldCoords :
        LET macro_x == macro_coord(w[1], self_chunk_size)
            macro_y == macro_coord(w[2], self_chunk_size)
            coords == ChunkCoords(macro_x, macro_y, 0, 0)
        IN  /\ GetTileCall("a", w[1], w[2], coords, get_chunk("a", coords),
                           generate_chunk("a", coords, 0))
            /\ UNCHANGED tile_vars

GetTileNext == GetTileAt

SpecGetTile == ChunkInit /\ [][GetTileNext]_vars

\* floor(a / b) for b > 0, by its defining property
Floor(a, b) == CHOOSE q \in (-Abs(a) - 1)..(Abs(a) + 1) : q * b <= a /\ a < (q + 1) * b

(***************************************************************************)
(* C14: get_tile(wx, wy) returns a tile, never nothing, for negative       *)
(* coordinates too; the tile's stored x and y are wx and wy; it is the     *)
(* entry at local (wx mod cs, wy mod cs) of the chunk keyed                *)
(* (floor(wx / cs), floor(wy / cs), 0, 0), and that chunk is in the cache  *)
(* after the call.                                                         *)
(***************************************************************************)
C14_GetTile ==
    ret.op = "get_tile" =>
        LET cs == self_chunk_size
            chunk_key == <<Floor(ret.world_x, cs), Floor(ret.world_y, cs), 0, 0>>
            local == <<ret.world_x - Floor(ret.world_x, cs) * cs,
                       ret.world_y - Floor(ret.world_y, cs) * cs>>
        IN  /\ Len(ret.tile) = 1
            /\ ret.tile[1].x = ret.world_x
            /\ ret.tile[1].y = ret.world_y
            /\ chunk_key \in DOMAIN self_chunks[ret.g]
            /\ ret.chunk = self_chunks[ret.g][chunk_key].id
            /\ local \in DOMAIN self_chunks[ret.g][chunk_key].tiles
            /\ ret.tile[1] = self_chunks[ret.g][chunk_key].tiles[local]

\* a tile was asked for at negative coordinates, of a chunk that was not cached
C14_Witness ==
    /\ ret.op = "get_tile"
    /\ ret.world_x < 0 /\ ret.world_y < 0
    /\ self_chunk_size > 1
    /\ ret.world_x % self_chunk_size # 0
    /\ Len(ret.tile) = 1
    /\ ret.chunk[3] = 1

(***************************************************************************)
(* ecs/registry.py: Registry.  _components maps a component type to the    *)
(* dict entity id -> component; a type is a key from the first             *)
(* add_component of that type on.                                          *)
(***************************************************************************)
\* Registry.__init__
Registry == [_next_id |-> 1, _entities |-> {}, _components |-> <<>>]

\* what a method gave: the object after it, the value returned, the exception
Outcome(self, returned, raised) == [self |-> self, ret |-> returned, raised |-> raised]

\* del d[k]
Del(d, k) == [x \in DOMAIN d \ {k} |-> d[x]]

create_entity(self) ==
    LET entity_id == self._next_id
    IN  Outcome([self EXCEPT !._next_id = @ + 1, !._entities = @ \cup {entity_id}],
                entity_id, "None")

\* destroy_entity without the loop over the component types
destroy_entity_keep_components(self, entity_id) ==
    IF entity_id \notin self._entities THEN Outcome(self, "None", "None")
    ELSE Outcome([self EXCEPT !._entities = @ \ {entity_id}], "None", "None")

destroy_entity(self, entity_id) ==
    IF entity_id \notin self._entities THEN Outcome(self, "None", "None")
    ELSE Outcome([self EXCEPT
                     !._components =
                         [component_type \in DOMAIN @ |->
                             IF entity_id \in DOMAIN @[component_type]
                             THEN Del(@[component_type], entity_id)
                             ELSE @[component_type]],
                     !._entities = @ \ {entity_id}],
                 "None", "None")

add_component(self, entity_id, component) ==
    IF entity_id \notin self._entities THEN Outcome(self, "None", "ValueError")
    ELSE LET component_type == component.type
             of_type == IF component_type \in DOMAIN self._components
                        THEN self._components[component_type] ELSE <<>>
         IN  Outcome([self EXCEPT
                         !._components = Put(@, component_type,
                                             Put(of_type, entity_id, component))],
                     "None", "None")

remove_component(self, entity_id, component_type) ==
    IF /\ component_type \in DOMAIN self._components
       /\ entity_id \in DOMAIN self._components[component_type]
    THEN Outcome([self EXCEPT !._components[component_type] = Del(@, entity_id)],
                 "None", "None")
    ELSE Outcome(self, "None", "None")

(***************************************************************************)
(* SpecRegistry: any sequence of the four calls on one Registry.           *)
(***************************************************************************)
ComponentTypes == {"Position", "Renderable"}

\* the components passed to add_component
Components ==
    {[type |-> "Position", value |-> 1], [type |-> "Position", value |-> 2],
     [type |-> "Renderable", value |-> 1]}

\* the entity ids passed: ids created, destroyed, and never created
EntityIds == 0..MaxEntities

RegistryCall(op, entity_id, arg, outcome) ==
    /\ registry' = outcome.self
    /\ rcall' = [op |-> op, entity_id |-> entity_id, arg |-> arg, before |-> registry,
                 ret |-> outcome.ret, raised |-> outcome.raised]
    /\ UNCHANGED <<tile_vars, worlds, chunk_vars, save_vars, river_frame, loop_vars>>

RegistryInit ==
    /\ NoTile
    /\ worlds = <<>>
    /\ NoGenerator
    /\ NoSaveManager
    /\ NoRivers
    /\ NoPasses
    /\ NoGame
    /\ registry = Registry
    /\ rcall = [op |-> "__init__", entity_id |-> 0, arg |-> "None", before |-> Registry,
                ret |-> "None", raised |-> "None"]

CreateEntity ==
    /\ registry._next_id <= MaxEntities
    /\ RegistryCall("create_entity", 0, "None", create_entity(registry))
    /\ UNCHANGED worlds

DestroyEntity ==
    \E entity_id \in EntityIds :
        /\ RegistryCall("destroy_entity", entity_id, "None",
                        destroy_entity(registry, entity_id))
        /\ UNCHANGED worlds

AddComponent ==
    \E entity_id \in EntityIds, component \in Components :
        /\ RegistryCall("add_component", entity_id, component,
                        add_component(registry, entity_id, component))
        /\ UNCHANGED worlds

RemoveComponent ==
    \E entity_id \in EntityIds, component_type \in ComponentTypes :
        /\ RegistryCall("remove_component", entity_id, component_type,
                        remove_component(registry, entity_id, component_type))
        /\ UNCHANGED worlds

RegistryNext == CreateEntity \/ DestroyEntity \/ AddComponent \/ RemoveComponent

SpecRegistry == RegistryInit /\ [][RegistryNext]_vars

\* the component types under which self holds a component for entity_id
StoredFor(self, entity_id) ==
    {component_type \in DOMAIN self._components :
        entity_id \in DOMAIN self._components[component_type]}

(***************************************************************************)
(* C17: after any sequence of create_entity, destroy_entity, add_component *)
(* and remove_component calls no component is stored for an entity id      *)
(* that does not exist; destroy_entity leaves no component of the entity;  *)
(* add_component on an id that does not exist raises ValueError and stores *)
(* nothing.                                                                *)
(***************************************************************************)
C17_NoOrphanComponents ==
    /\ \A component_type \in DOMAIN registry._components :
           DOMAIN registry._components[component_type] \subseteq registry._entities
    /\ rcall.op = "destroy_entity" =>
           /\ StoredFor(registry, rcall.entity_id) = {}
           /\ rcall.entity_id \notin registry._entities
    /\ (rcall.op = "add_component" /\ rcall.entity_id \notin rcall.before._entities) =>
           /\ rcall.raised = "ValueError"
           /\ registry = rcall.before

\* an entity that held a component of each type was destroyed
C17_Witness ==
    /\ rcall.op = "destroy_entity"
    /\ StoredFor(rcall.before, rcall.entity_id) = ComponentTypes
    /\ StoredFor(registry, rcall.entity_id) = {}
    /\ \E other \in registry._entities : StoredFor(registry, other) # {}

(***************************************************************************)
(* save_manager.py: SaveManager.  A Python value is a record of its type t *)
(* and its content: the text s of a str, the number n of an int or float,  *)
(* the items of a list, tuple, set or dict, and the keys of a dict.        *)
(* A JSON text is kept as the tree of JSON values it denotes: what         *)
(* json.dumps writes for a Python value and what json.loads reads back are *)
(* two conversions, not one identity.  A float is written by repr, which   *)
(* json.loads reads back as the same float.                                *)
(***************************************************************************)
Py(t, text, n, keys, items) == [t |-> t, s |-> text, n |-> n, keys |-> keys, items |-> items]

PyNone == Py("NoneType", "", 0, <<>>, <<>>)
PyStr(v) == Py("str", v, 0, <<>>, <<>>)
PyInt(v) == Py("int", "", v, <<>>, <<>>)
PyFloat(v) == Py("float", "", v, <<>>, <<>>)
PyList(items) == Py("list", "", 0, <<>>, items)
PyTuple(items) == Py("tuple", "", 0, <<>>, items)
PySet(items) == Py("set", "", 0, <<>>, items)
\* the dict with the i-th key mapped to the i-th item
PyDict(keys, items) == Py("dict", "", 0, keys, items)

Json(j, text, n, keys, items) == [j |-> j, s |-> text, n |-> n, keys |-> keys, items |-> items]

\* str(n) for the small integers used as keys
Str(n) == <<"0", "1", "2", "3">>[n + 1]

\* json.dumps raises TypeError on value: a set anywhere in it
RECURSIVE NotSerializable(_)
NotSerializable(value) ==
    \/ value.t = "set"
    \/ \E i \in 1..Len(value.items) : NotSerializable(value.items[i])

\* the JSON value json.dumps writes for a serializable Python value: lists and
\* tuples both become arrays, the keys of a dict become strings
RECURSIVE JsonOf(_)
JsonOf(value) ==
    LET items == [i \in 1..Len(value.items) |-> JsonOf(value.items[i])]
        keys == [i \in 1..Len(value.keys) |->
                    IF value.keys[i].t = "int" THEN Str(value.keys[i].n)
                    ELSE value.keys[i].s]
    IN  CASE value.t = "NoneType" -> Json("null", "", 0, <<>>, <<>>)
          [] value.t = "str" -> Json("string", value.s, 0, <<>>, <<>>)
          [] value.t = "int" -> Json("integer", "", value.n, <<>>, <<>>)
          [] value.t = "float" -> Json("real", "", value.n, <<>>, <<>>)
          [] value.t \in {"list", "tuple"} -> Json("array", "", 0, <<>>, items)
          [] value.t = "dict" -> Json("object", "", 0, keys, items)

\* json.loads: the Python value read from a JSON value
RECURSIVE PyOf(_)
PyOf(json) ==
    LET items == [i \in 1..Len(json.items) |-> PyOf(json.items[i])]
        keys == [i \in 1..Len(json.keys) |-> PyStr(json.keys[i])]
    IN  CASE json.j = "null" -> PyNone
          [] json.j = "string" -> PyStr(json.s)
          [] json.j = "integer" -> PyInt(json.n)
          [] json.j = "real" -> PyFloat(json.n)
          [] json.j = "array" -> PyList(items)
          [] json.j = "object" -> PyDict(keys, items)

\* key in d, d a dict with str keys
HasKey(d, key) == \E i \in 1..Len(d.keys) : d.keys[i] = PyStr(key)

\* d[key]
Item(d, key) == d.items[CHOOSE i \in 1..Len(d.keys) : d.keys[i] = PyStr(key)]

\* d.get(key, default)
Get(d, key, default) == IF HasKey(d, key) THEN Item(d, key) ELSE default

GameCommand(timestamp, command_type, data) ==
    [timestamp |-> timestamp, command_type |-> command_type, data |-> data]

\* SaveManager.__init__ at time now
SaveManager(now) == [command_log |-> <<>>, session_start |-> PyFloat(now), enabled |-> TRUE]

\* record_command(command_type, data) at time now; data or {} is {} for None
\* and for the empty dict
record_command(self, command_type, data, now) ==
    IF ~self.enabled THEN Outcome(self, FALSE, "None")
    ELSE LET command == GameCommand(PyFloat(now - self.session_start.n),
                                    PyStr(command_type),
                                    IF data = PyNone \/ data = PyDict(<<>>, <<>>)
                                    THEN PyDict(<<>>, <<>>) ELSE data)
         IN  Outcome([self EXCEPT !.command_log = Append(@, command)], TRUE, "None")

\* export_to_json: the JSON text, "{}" when json.dumps raised
export_to_json(self) ==
    LET export_data ==
            PyDict(<<PyStr("session_start"), PyStr("commands")>>,
                   <<self.session_start,
                     PyList([i \in 1..Len(self.command_log) |->
                         PyDict(<<PyStr("timestamp"), PyStr("command_type"), PyStr("data")>>,
                                <<self.command_log[i].timestamp,
                                  self.command_log[i].command_type,
                                  self.command_log[i].data>>)])>>)
    IN  IF NotSerializable(export_data) THEN JsonOf(PyDict(<<>>, <<>>))
        ELSE JsonOf(export_data)

\* the commands made in the loop of import_from_json
CommandsIn(data) ==
    LET listed == Get(data, "commands", PyList(<<>>))
    IN  [i \in 1..Len(listed.items) |->
            GameCommand(Item(listed.items[i], "timestamp"),
                        Item(listed.items[i], "command_type"),
                        Get(listed.items[i], "data", PyDict(<<>>, <<>>)))]

\* import_from_json(json_data) at time now; a command without a timestamp or
\* a command_type raises KeyError, which is caught
import_from_json(self, json_data, now) ==
    LET data == PyOf(json_data)
        listed == Get(data, "commands", PyList(<<>>))
        started == [self EXCEPT !.session_start = Get(data, "session_start", PyFloat(now))]
    IN  IF \E i \in 1..Len(listed.items) :
               \/ ~HasKey(listed.items[i], "timestamp")
               \/ ~HasKey(listed.items[i], "command_type")
        THEN Outcome(started, FALSE, "None")
        ELSE Outcome([started EXCEPT !.command_log = CommandsIn(data)], TRUE, "None")

(***************************************************************************)
(* SpecSave: one SaveManager records commands; at any time its export is   *)
(* imported by a fresh SaveManager.                                        *)
(***************************************************************************)
CommandTypes == {"move", "quit"}

\* the data arguments: none, and dicts of one entry
DataArgs ==
    {PyNone, PyDict(<<>>, <<>>),
     PyDict(<<PyStr("x")>>, <<PyInt(5)>>),
     PyDict(<<PyStr("direction")>>, <<PyStr("north")>>),
     PyDict(<<PyStr("path")>>, <<PyList(<<PyInt(5), PyInt(3)>>)>>),
     PyDict(<<PyStr("pos")>>, <<PyTuple(<<PyInt(5), PyInt(3)>>)>>),
     PyDict(<<PyInt(1)>>, <<PyStr("north")>>),
     PyDict(<<PyStr("seen")>>, <<PySet(<<PyInt(5)>>)>>)}

\* time.time() at the calls, in ticks after the construction of manager
Times == 0..MaxCommands

\* the time of the last call on manager
LastTime == IF Len(manager.command_log) = 0 THEN 0
            ELSE manager.command_log[Len(manager.command_log)].timestamp.n

SaveInit ==
    /\ NoTile
    /\ worlds = <<>>
    /\ NoGenerator
    /\ NoRegistry
    /\ NoRivers
    /\ NoPasses
    /\ NoGame
    /\ manager = SaveManager(0)
    /\ new_manager = <<>>
    /\ scall = [op |-> "__init__", ret |-> "None", json_data |-> "None"]

SaveIdle == UNCHANGED <<tile_vars, worlds, chunk_vars, ecs_vars, river_frame, loop_vars>>

RecordCommandCall(outcome) ==
    /\ manager' = outcome.self
    /\ scall' = [op |-> "record_command", ret |-> outcome.ret, json_data |-> "None"]
    /\ UNCHANGED new_manager

RecordCommand ==
    /\ Len(manager.command_log) < MaxCommands
    /\ \E command_type \in CommandTypes, data \in DataArgs, now \in Times :
           /\ now >= LastTime
           /\ RecordCommandCall(record_command(manager, command_type, data, now))
    /\ SaveIdle

EnableLogging ==
    /\ manager' = [manager EXCEPT !.enabled = TRUE]
    /\ scall' = [op |-> "enable_logging", ret |-> "None", json_data |-> "None"]
    /\ UNCHANGED new_manager
    /\ SaveIdle

DisableLogging ==
    /\ manager' = [manager EXCEPT !.enabled = FALSE]
    /\ scall' = [op |-> "disable_logging", ret |-> "None", json_data |-> "None"]
    /\ UNCHANGED new_manager
    /\ SaveIdle

ImportCall(json_data, outcome) ==
    /\ new_manager' = outcome.self
    /\ scall' = [op |-> "import_from_json", ret |-> outcome.ret, json_data |-> json_data]
    /\ UNCHANGED manager

\* new_manager = SaveManager(); new_manager.import_from_json(manager.export_to_json())
ExportImport ==
    /\ \E now \in Times :
           /\ now >= LastTime
           /\ ImportCall(export_to_json(manager),
                         import_from_json(SaveManager(now), export_to_json(manager), now))
    /\ SaveIdle

SaveNext == RecordCommand \/ EnableLogging \/ DisableLogging \/ ExportImport

SpecSave == SaveInit /\ [][SaveNext]_vars

(***************************************************************************)
(* C18: for any command log built by record_command, import_from_json on a *)
(* fresh SaveManager with the output of export_to_json returns True and    *)
(* yields a command log with the same number of commands, in the same      *)
(* order, with equal command_type, timestamp and data.                     *)
(***************************************************************************)
C18_RoundTrip ==
    scall.op = "import_from_json" =>
        /\ scall.ret = TRUE
        /\ Len(new_manager.command_log) = Len(manager.command_log)
        /\ \A i \in 1..Min(Len(manager.command_log), Len(new_manager.command_log)) :
               /\ new_manager.command_log[i].command_type = manager.command_log[i].command_type
               /\ new_manager.command_log[i].timestamp = manager.command_log[i].timestamp
               /\ new_manager.command_log[i].data = manager.command_log[i].data

(***************************************************************************)
(* SpecBiome: one call of determine_biome, with a height in [-1, 1] and a  *)
(* moisture and a temperature in [0, 1].                                   *)
(***************************************************************************)
BiomeGrain == Scale \div BiomeSteps

Heights11 == {k * BiomeGrain : k \in (-BiomeSteps)..BiomeSteps}

Unit01 == {k * BiomeGrain : k \in 0..BiomeSteps}

BiomeInit ==
    /\ NoSupport
    /\ ti = TileInfo(0, 0, Tile(".", "grassland", Lit(30), Lit(50)), Lit(50), TRUE)
    /\ \E height \in Heights11, moisture \in Unit01, temperature \in Unit01 :
           tcall = [op |-> "arguments", height |-> height, moisture |-> moisture,
                    temperature |-> temperature]
    /\ worlds = <<>>
    /\ NoGenerator

DetermineBiome ==
    /\ tcall.op = "arguments"
    /\ tcall' = [op |-> "determine_biome", height |-> tcall.height,
                 moisture |-> tcall.moisture, temperature |-> tcall.temperature,
                 ret |-> determine_biome(tcall.height, tcall.moisture, tcall.temperature)]
    /\ UNCHANGED <<support_vars, ti, worlds, chunk_vars>>

BiomeNext == DetermineBiome

SpecBiome == BiomeInit /\ [][BiomeNext]_vars

(***************************************************************************)
(* C11: determine_biome gives a biome for every height in [-1, 1] and      *)
(* moisture and temperature in [0, 1], by these rules, the first that      *)
(* matches: height < 0 OCEAN; height < 0.1 BEACH; temperature < 0.2        *)
(* TUNDRA; temperature < 0.4 FOREST if moisture > 0.6, GRASSLAND if        *)
(* moisture > 0.3, else HILLS; temperature < 0.7 MOUNTAINS if height >     *)
(* 0.7, HILLS if height > 0.5, FOREST if moisture > 0.7, SWAMP if moisture *)
(* > 0.6, GRASSLAND if moisture > 0.3, else DESERT; otherwise MOUNTAINS if *)
(* height > 0.6, JUNGLE if moisture > 0.8, SWAMP if moisture > 0.6,        *)
(* GRASSLAND if moisture > 0.2, else DESERT.  It gives OCEAN exactly when  *)
(* height < 0, and never RIVER or LAKE.                                    *)
(***************************************************************************)
C11_BiomeRules ==
    tcall.op = "determine_biome" =>
        LET h == tcall.height
            m == tcall.moisture
            t == tcall.temperature
            b == tcall.ret
            land == h >= Lit(10)
            cool == land /\ t >= Lit(20) /\ t < Lit(40)
            temperate == land /\ t >= Lit(40) /\ t < Lit(70)
            hot == land /\ t >= Lit(70)
            low == temperate /\ h <= Lit(50)
            flat == hot /\ h <= Lit(60)
        IN  /\ b \in BiomeType \ {"river", "lake"}
            /\ (b = "ocean") <=> (h < 0)
            /\ (h >= 0 /\ h < Lit(10)) => b = "beach"
            /\ (land /\ t < Lit(20)) => b = "tundra"
            /\ (cool /\ m > Lit(60)) => b = "forest"
            /\ (cool /\ m > Lit(30) /\ m <= Lit(60)) => b = "grassland"
            /\ (cool /\ m <= Lit(30)) => b = "hills"
            /\ (temperate /\ h > Lit(70)) => b = "mountains"
            /\ (temperate /\ h > Lit(50) /\ h <= Lit(70)) => b = "hills"
            /\ (low /\ m > Lit(70)) => b = "forest"
            /\ (low /\ m > Lit(60) /\ m <= Lit(70)) => b = "swamp"
            /\ (low /\ m > Lit(30) /\ m <= Lit(60)) => b = "grassland"
            /\ (low /\ m <= Lit(30)) => b = "desert"
            /\ (hot /\ h > Lit(60)) => b = "mountains"
            /\ (flat /\ m > Lit(80)) => b = "jungle"
            /\ (flat /\ m > Lit(60) /\ m <= Lit(80)) => b = "swamp"
            /\ (flat /\ m > Lit(20) /\ m <= Lit(60)) => b = "grassland"
            /\ (flat /\ m <= Lit(20)) => b = "desert"

\* a call in the temperate band where height decides before moisture: a wet
\* place above 0.5 is HILLS, not FOREST
C11_Witness ==
    /\ tcall.op = "determine_biome"
    /\ tcall.temperature >= Lit(40) /\ tcall.temperature < Lit(70)
    /\ tcall.height > Lit(50) /\ tcall.height <= Lit(70)
    /\ tcall.moisture > Lit(70)
    /\ tcall.ret = "hills"

(***************************************************************************)
(* SpecPasses: generate_chunk past the cache lookup, one pass per step:    *)
(* the tile loop, _apply_erosion, _generate_rivers where the macro cell    *)
(* bears a river, and _place_resources.  The macro cells of the grids      *)
(* generated within MaxWidth by MaxHeight record no entry side and lie     *)
(* away from the sea, so the owner and its neighbours are drawn: an owner  *)
(* of each kind of terrain, with and without a river and entry sides, on   *)
(* the coast or inland.                                                    *)
(***************************************************************************)
PassSizes == 1..MaxPassSize

PassSeeds == 0..MaxPassSeed

PassCoords == {ChunkCoords(0, 0, 0, 0), ChunkCoords(2, 1, 0, 0)}

\* elevation, moisture, temperature, has_river, river_entry_sides
PassOwners ==
    {<<Lit(70), Lit(60), Lit(50), TRUE, {}>>,
     <<Lit(15), Lit(80), Lit(50), TRUE, {"north"}>>,
     <<Lit(15), Lit(100), Lit(50), TRUE, {"south", "east"}>>,
     <<Lit(5), Lit(50), Lit(50), TRUE, {"west"}>>,
     <<Lit(60), Lit(40), Lit(50), TRUE, {"east"}>>,
     <<Lit(30), Lit(80), Lit(50), FALSE, {}>>,
     <<Lit(45), Lit(80), Lit(50), FALSE, {}>>,
     <<Lit(3), Lit(50), Lit(50), FALSE, {}>>}

\* the owner: a cell of the grid with the drawn properties, classified as
\* phases 4 to 6 of _generate_world classify it
DrawnOwner(coords, o, kind) ==
    LET p == <<coords.macro_x, coords.macro_y>>
        cell == [MacroCell(coords.macro_x, coords.macro_y, o[1]) EXCEPT
                    !.moisture = o[2], !.temperature = o[3],
                    !.landform = IF kind = "land" THEN "continent" ELSE "island",
                    !.has_river = o[4], !.river_entry_sides = o[5]]
    IN  _determine_biomes(_determine_climates([q \in {p} |-> cell]))[p]

\* the neighbours _get_macro_neighbors gives.  Inland they are cells like the
\* owner.  On the coast the cells on the sides the river enters from, or the
\* one to the south of a source, are cells like the owner and the others lie
\* outside the grid.
DrawnNeighbors(macro_cell, kind) ==
    Table([direction \in DOMAIN Directions |->
        LET dx == Directions[direction][1]
            dy == Directions[direction][2]
            sides == macro_cell.river_entry_sides
        IN  IF \/ kind = "land"
               \/ direction \in sides
               \/ (sides = {} /\ direction = "south")
            THEN [macro_cell EXCEPT !.x = @ + dx, !.y = @ + dy,
                                    !.has_river = direction \in sides,
                                    !.river_entry_sides = {}]
            ELSE DefaultOceanCell(macro_cell.x + dx, macro_cell.y + dy)])

PassesEntered(coords, macro_cell, kind, chunk_size, seed) ==
    [pc |-> "entered", coords |-> coords, macro_cell |-> macro_cell,
     neighbors |-> DrawnNeighbors(macro_cell, kind), chunk_size |-> chunk_size,
     rng |-> RngSeed(ChunkSeed(seed, coords, 0)),
     tiles |-> <<>>, eroded |-> <<>>, rivers |-> <<>>, placed |-> <<>>]

PassesInit ==
    /\ NoTile
    /\ NoGenerator
    /\ worlds = <<>>
    /\ NoRegistry
    /\ NoSaveManager
    /\ NoRivers
    /\ NoGame
    /\ \E coords \in PassCoords, o \in PassOwners, kind \in {"coast", "land"},
          chunk_size \in PassSizes, seed \in PassSeeds :
           chunk_frame = PassesEntered(coords, DrawnOwner(coords, o, kind), kind,
                                       chunk_size, seed)

PassesIdle ==
    UNCHANGED <<tile_vars, worlds, chunk_vars, ecs_vars, save_vars, river_frame, game>>

\* "Generate each tile in the chunk"
PassTiles ==
    /\ chunk_frame.pc = "entered"
    /\ chunk_frame' =
           [chunk_frame EXCEPT !.pc = "tiles",
                               !.tiles = GenerateTiles(chunk_frame.coords,
                                                       chunk_frame.macro_cell,
                                                       chunk_frame.neighbors,
                                                       chunk_frame.chunk_size)]
    /\ PassesIdle

\* "Apply hydraulic erosion"
PassErosion ==
    /\ chunk_frame.pc = "tiles"
    /\ chunk_frame' =
           [chunk_frame EXCEPT !.pc = "eroded",
                               !.eroded = _apply_erosion(chunk_frame.tiles,
                                                         chunk_frame.chunk_size)]
    /\ PassesIdle

\* the tiles dict and the generator's state a pass is handed
PassState(tiles, rng) == [tiles |-> tiles, rng |-> rng, path |-> <<>>, widened |-> {}]

\* "Generate rivers if macro cell has rivers"
PassRivers ==
    /\ chunk_frame.pc = "eroded"
    /\ chunk_frame' =
           [chunk_frame EXCEPT
               !.pc = "rivers",
               !.rivers = IF chunk_frame.macro_cell.has_river
                          THEN _generate_rivers_chunk(
                                   PassState(chunk_frame.eroded, chunk_frame.rng),
                                   chunk_frame.macro_cell, chunk_frame.chunk_size)
                          ELSE PassState(chunk_frame.eroded, chunk_frame.rng)]
    /\ PassesIdle

\* "Place resources"
PassResources ==
    /\ chunk_frame.pc = "rivers"
    /\ chunk_frame' =
           [chunk_frame EXCEPT !.pc = "placed",
                               !.placed = _place_resources(chunk_frame.rivers,
                                                           chunk_frame.chunk_size)]
    /\ PassesIdle

PassesNext == PassTiles \/ PassErosion \/ PassRivers \/ PassResources

SpecPasses == PassesInit /\ [][PassesNext]_vars

\* the chunk that generate_chunk caches and returns, once the passes are done
Returned(f) == f.placed.tiles

\* the positions the river trace visited
PathSet(st) == {st.path[i] : i \in 1..Len(st.path)}

(***************************************************************************)
(* C21: in the chunk generate_chunk returns, after all passes, a tile is   *)
(* passable if and only if its biome is not OCEAN, RIVER or LAKE; the      *)
(* tiles the river trace visited and the tiles widening converted are      *)
(* RIVER and impassable.                                                   *)
(***************************************************************************)
C21_Passable ==
    chunk_frame.pc = "placed" =>
        /\ \A p \in DOMAIN Returned(chunk_frame) :
               Returned(chunk_frame)[p].passable
                   <=> Returned(chunk_frame)[p].tile.biome \notin {"ocean", "river", "lake"}
        /\ \A p \in PathSet(chunk_frame.rivers) \cup chunk_frame.rivers.widened :
               /\ Returned(chunk_frame)[p].tile.biome = "river"
               /\ ~Returned(chunk_frame)[p].passable

\* the chunk returned has a passable tile, and a tile that was passable land
\* after erosion and a river tile after the trace visited it, and another
\* that widening converted
C21_Witness ==
    /\ chunk_frame.pc = "placed"
    /\ \E p \in DOMAIN Returned(chunk_frame) : Returned(chunk_frame)[p].passable
    /\ \E p \in PathSet(chunk_frame.rivers) :
           /\ chunk_frame.eroded[p].passable
           /\ Returned(chunk_frame)[p].tile.biome = "river"
    /\ \E p \in chunk_frame.rivers.widened \ PathSet(chunk_frame.rivers) :
           /\ chunk_frame.eroded[p].passable
           /\ Returned(chunk_frame)[p].tile.biome = "river"

(***************************************************************************)
(* C22: the river pass never converts a tile by widening that is OCEAN,    *)
(* RIVER or LAKE already: a water tile the trace itself did not visit has, *)
(* after the pass, the biome, glyph, height and moisture it had before.    *)
(***************************************************************************)
C22_WideningSkipsWater ==
    chunk_frame.pc \in {"rivers", "placed"} =>
        \A p \in DOMAIN chunk_frame.eroded :
            (is_water(chunk_frame.eroded[p]) /\ p \notin PathSet(chunk_frame.rivers)) =>
                chunk_frame.rivers.tiles[p].tile = chunk_frame.eroded[p].tile

\* the resource names _place_resources places
Ores == {"iron_ore", "copper_ore", "silver_ore", "gold_ore"}
Quarried == {"stone", "clay", "iron_ore"}

(***************************************************************************)
(* C23: in the chunk generate_chunk returns, a tile carries a resource     *)
(* only if it was land (no water biome, height >= 0) after the erosion and *)
(* river passes: wood only on FOREST, salt only on BEACH, iron, copper,    *)
(* silver and gold ore only on minable MOUNTAINS, stone, clay and iron ore *)
(* only on minable HILLS; no OCEAN or RIVER tile carries a resource, every *)
(* quantity placed is positive, and placing changes nothing else of a tile.*)
(***************************************************************************)
C23_Resources ==
    chunk_frame.pc = "placed" =>
        \A p \in DOMAIN Returned(chunk_frame) :
            LET t == Returned(chunk_frame)[p]
                before == chunk_frame.rivers.tiles[p]
            IN  /\ t.tile = before.tile /\ t.passable = before.passable
                /\ (t.resource_type = None) <=> (t.resource_quantity = 0)
                /\ t.resource_type # None =>
                       /\ ~is_water(before) /\ before.tile.height >= 0
                       /\ t.tile.biome \notin {"ocean", "river"}
                       /\ t.resource_quantity > 0
                       /\ t.resource_type \in Ores \cup Quarried \cup {"wood", "salt"}
                       /\ t.resource_type = "wood" => t.tile.biome = "forest"
                       /\ t.resource_type = "salt" => t.tile.biome = "beach"
                       /\ t.resource_type \in Ores \cup Quarried =>
                              /\ t.tile.biome \in {"mountains", "hills"}
                              /\ t.tile.height > Lit(40)
                       /\ t.tile.biome = "mountains" => t.resource_type \in Ores
                       /\ t.tile.biome = "hills" => t.resource_type \in Quarried

\* the chunk returned has a tile with a resource, and a river tile without a
\* one that was forest, beach, hills or mountains above sea level before the
\* river pass
C23_Witness ==
    /\ chunk_frame.pc = "placed"
    /\ \E p \in DOMAIN Returned(chunk_frame) : Returned(chunk_frame)[p].resource_quantity > 0
    /\ \E p \in DOMAIN Returned(chunk_frame) :
           /\ Returned(chunk_frame)[p].tile.biome = "river"
           /\ Returned(chunk_frame)[p].resource_type = None
           /\ chunk_frame.eroded[p].tile.biome \in {"forest", "beach", "hills", "mountains"}
           /\ chunk_frame.eroded[p].tile.height >= 0

\* the tiles dict visited in another order than the one of insertion
ReverseOrder(seq) == [i \in 1..Len(seq) |-> seq[Len(seq) + 1 - i]]

ColumnOrder(chunk_size) ==
    [k \in 1..(chunk_size * chunk_size) |-> <<(k - 1) \div chunk_size, (k - 1) % chunk_size>>]

\* every order of the keys of a chunk of at most four tiles, and two orders
\* of the keys of a larger one
VisitOrders(chunk_size) ==
    IF chunk_size <= 2
    THEN {order \in [1..(chunk_size * chunk_size) -> LocalCoords(chunk_size)] :
             \A i, j \in DOMAIN order : i # j => order[i] # order[j]}
    ELSE {ReverseOrder(LocalOrder(chunk_size)), ColumnOrder(chunk_size)}

\* the water-class tiles among the 8 neighbours of p that are keys of tiles
WaterAround(tiles, p) ==
    {q \in DOMAIN tiles : /\ q # p
                          /\ q[1] - p[1] \in {-1, 0, 1}
                          /\ q[2] - p[2] \in {-1, 0, 1}
                          /\ tiles[q].tile.biome \in {"ocean", "river", "lake"}}

(***************************************************************************)
(* C24: the erosion pass changes only the height and moisture of the       *)
(* tiles that are not water-class and have k >= 1 water-class tiles among  *)
(* their 8 neighbours in the chunk: the height is lowered by k/8 * 0.05    *)
(* but not below -1, the moisture raised by half that but not above 1.     *)
(* Biome, glyph, passability, temperature, position and resource of every  *)
(* tile, all water tiles and all tiles without a water neighbour are       *)
(* unchanged, and the result is the same in whatever order the tiles are   *)
(* visited.                                                                *)
(***************************************************************************)
C24_Erosion ==
    chunk_frame.pc \in {"eroded", "rivers", "placed"} =>
        /\ DOMAIN chunk_frame.eroded = DOMAIN chunk_frame.tiles
        /\ \A p \in DOMAIN chunk_frame.tiles :
               LET t == chunk_frame.tiles[p]
                   e == chunk_frame.eroded[p]
                   k == Cardinality(WaterAround(chunk_frame.tiles, p))
               IN  /\ e.tile.biome = t.tile.biome /\ e.tile.glyph = t.tile.glyph
                   /\ [e EXCEPT !.tile = t.tile] = t
                   /\ IF t.tile.biome \in {"ocean", "river", "lake"} \/ k = 0
                      THEN e = t
                      ELSE /\ e.tile.height = Max(-Scale, t.tile.height - (k * Lit(5)) \div 8)
                           /\ e.tile.moisture = Min(Scale, t.tile.moisture + (k * Lit(5)) \div 16)
        /\ \A order \in VisitOrders(chunk_frame.chunk_size) :
               ErodeLoop(chunk_frame.tiles, order, 1) = chunk_frame.eroded

\* erosion has run on a chunk with a water tile, a land tile away from water,
\* a land tile it lowered and moistened, and a land tile whose moisture it
\* raised to the cap
C24_Witness ==
    /\ chunk_frame.pc = "eroded"
    /\ \E p \in DOMAIN chunk_frame.tiles : is_water(chunk_frame.tiles[p])
    /\ \E p \in DOMAIN chunk_frame.tiles :
           /\ ~is_water(chunk_frame.tiles[p])
           /\ WaterAround(chunk_frame.tiles, p) = {}
    /\ \E p \in DOMAIN chunk_frame.tiles :
           /\ chunk_frame.eroded[p].tile.height < chunk_frame.tiles[p].tile.height
           /\ chunk_frame.eroded[p].tile.moisture > chunk_frame.tiles[p].tile.moisture
           /\ chunk_frame.eroded[p].tile.moisture < Scale
    /\ \E p \in DOMAIN chunk_frame.tiles :
           /\ chunk_frame.tiles[p].tile.moisture < Scale
           /\ chunk_frame.eroded[p].tile.moisture = Scale
           /\ chunk_frame.tiles[p].tile.moisture
                  + (Cardinality(WaterAround(chunk_frame.tiles, p)) * Lit(5)) \div 16 > Scale

\* the local positions on the chunk edge of the side _generate_rivers enters
\* by: the first of north, south, west, east among the recorded sides
EntryEdge(sides, chunk_size) ==
    {EntryStart(sides, chunk_size, along) : along \in 0..(chunk_size - 1)}

(***************************************************************************)
(* C25: where the owning macro cell is river-bearing and records at least  *)
(* one entry side, the chunk after the river pass has a RIVER tile on the  *)
(* edge of the first recorded side, whatever the chunk size.               *)
(***************************************************************************)
C25_EntryOnEdge ==
    (/\ chunk_frame.pc \in {"rivers", "placed"}
     /\ chunk_frame.macro_cell.has_river
     /\ chunk_frame.macro_cell.river_entry_sides # {}) =>
        \E p \in EntryEdge(chunk_frame.macro_cell.river_entry_sides,
                           chunk_frame.chunk_size) :
            /\ p \in DOMAIN chunk_frame.rivers.tiles
            /\ chunk_frame.rivers.tiles[p].tile.biome = "river"

C27_RiversDescend ==
    /\ \A p \in DOMAIN river_frame.cells :
           river_frame.cells[p].has_river => river_frame.cells[p].elevation >= sea_level
    /\ river_frame.pc = "trace" =>
           /\ river_frame.current \notin river_frame.visited
           /\ \A q \in river_frame.visited :
                  river_frame.cells[q].elevation
                      > river_frame.cells[river_frame.current].elevation
    /\ ~river_frame.revisit

\* a trace that marked two cells or more is in a cell an earlier trace marked,
\* and a trace ended next to the sea
C27_Witness ==
    /\ river_frame.pc = "trace"
    /\ Cardinality(river_frame.visited) >= 2
    /\ river_frame.cells[river_frame.current].has_river
    /\ \E p \in DOMAIN river_frame.cells :
           /\ river_frame.cells[p].has_river
           /\ \E q \in Around(river_frame, p) : river_frame.cells[q].elevation < sea_level

(***************************************************************************)
(* C28: for every amount, zero and negative included, harvest_resource     *)
(* returns a value between 0 and the quantity the tile held before the     *)
(* call, leaves a quantity that is no greater than before and not          *)
(* negative.                                                               *)
(***************************************************************************)
C28_HarvestBounds ==
    tcall.op = "harvest_resource" =>
        /\ tcall.ret >= 0
        /\ tcall.ret <= tcall.before.resource_quantity
        /\ ti.resource_quantity <= tcall.before.resource_quantity
        /\ ti.resource_quantity >= 0

(***************************************************************************)
(* main.py: the Game object and its loop.  Game.__init__ builds a macro    *)
(* map of 32 by 16 cells and a MapGenerator of chunk size 32, and puts the *)
(* cursor on the cell (16, 8) and the player on the tile (16, 16), the     *)
(* centres; here the sizes are those of GameArgs and the centres are       *)
(* computed from them.  The SaveManager is its log's length, the Registry  *)
(* is the player's Position component, the renderer is its camera.         *)
(***************************************************************************)
GameArgs == [width |-> 3, height |-> 2, seed |-> 1, chunk_size |-> 3]

GameMacroMap == MacroWorldMap(GameArgs.width, GameArgs.height, GameArgs.seed, 0)

\* the keys of the chunks the game can load
GameKeys == {<<x, y, 0, 0>> : x \in 0..(GameArgs.width - 1), y \in 0..(GameArgs.height - 1)}

\* what generate_chunk generates for each of them, tabulated once
GameChunksOf(macro_map) ==
    Table([k \in GameKeys |->
              GeneratePhases(macro_map, GameArgs.chunk_size,
                             ChunkCoords(k[1], k[2], 0, 0), 0).placed])

GameChunks == GameChunksOf(GameMacroMap)

\* self.map_generator.generate_chunk(coords): the chunk returned and
\* self.chunks after the call
Generated(chunks, coords, tiles) ==
    [chunk |-> tiles, chunks |-> Put(chunks, ChunkKey(coords), tiles)]

GameGenerate(table, chunks, coords) ==
    IF CacheHit(chunks, ChunkKey(coords))
    THEN [chunk |-> chunks[ChunkKey(coords)], chunks |-> chunks]
    ELSE IF ChunkKey(coords) \in DOMAIN table
    THEN Generated(chunks, coords, table[ChunkKey(coords)])
    ELSE Generated(chunks, coords,
                   GeneratePhases(GameMacroMap, GameArgs.chunk_size, coords, 0).placed)

\* what _load_chunk assigns
Loaded(self, r, coords) ==
    [self EXCEPT !.current_chunk = r.chunk,
                 !.current_chunk_coords = coords,
                 !.chunks = r.chunks]

_load_chunk(self, coords) == Loaded(self, GameGenerate(GameChunks, self.chunks, coords), coords)

\* the player is put on (x, y): player_x, player_y, the Position component
\* of the player entity, and the camera
PlayerAt(self, x, y) ==
    [self EXCEPT !.player_x = x, !.player_y = y,
                 !.position = <<x, y>>, !.camera = <<x, y>>]

_move_player(self, new_x, new_y) ==
    IF /\ self.current_chunk # <<>>
       /\ <<new_x, new_y>> \in DOMAIN self.current_chunk
       /\ self.current_chunk[<<new_x, new_y>>].passable
    THEN PlayerAt(self, new_x, new_y)
    ELSE self

\* new_x or new_y after _handle_chunk_transition wrapped it, and macro_dx or
\* macro_dy
Wrapped(new, chunk_size) ==
    IF new < 0 THEN chunk_size - 1 ELSE IF new >= chunk_size THEN 0 ELSE new

MacroDelta(new, chunk_size) ==
    IF new < 0 THEN -1 ELSE IF new >= chunk_size THEN 1 ELSE 0

_handle_chunk_transition(self, new_x, new_y) ==
    LET chunk_size == GameArgs.chunk_size
        new_macro_x == self.current_chunk_coords.macro_x + MacroDelta(new_x, chunk_size)
        new_macro_y == self.current_chunk_coords.macro_y + MacroDelta(new_y, chunk_size)
    IN  IF /\ 0 <= new_macro_x /\ new_macro_x < GameArgs.width
           /\ 0 <= new_macro_y /\ new_macro_y < GameArgs.height
        THEN _move_player(_load_chunk(self, ChunkCoords(new_macro_x, new_macro_y, 0, 0)),
                          Wrapped(new_x, chunk_size), Wrapped(new_y, chunk_size))
        ELSE self

MovementCommands == {"move_north", "move_south", "move_east", "move_west"}

get_movement_delta(command) ==
    CASE command = "move_north" -> <<0, -1>>
      [] command = "move_south" -> <<0, 1>>
      [] command = "move_east" -> <<1, 0>>
      [] command = "move_west" -> <<-1, 0>>
      [] OTHER -> <<0, 0>>

\* _handle_movement in macro mode; first, a cursor that is not kept on the map
MacroCursorFree(self, dx, dy) ==
    [self EXCEPT !.macro_cursor_x = @ + dx, !.macro_cursor_y = @ + dy]

MacroCursor(self, dx, dy) ==
    [self EXCEPT
        !.macro_cursor_x = Max(0, Min(GameArgs.width - 1, @ + dx)),
        !.macro_cursor_y = Max(0, Min(GameArgs.height - 1, @ + dy))]

_handle_movement(self, command) ==
    LET dx == get_movement_delta(command)[1]
        dy == get_movement_delta(command)[2]
        new_x == self.player_x + dx
        new_y == self.player_y + dy
        chunk_size == GameArgs.chunk_size
    IN  IF self.mode = "macro" THEN MacroCursor(self, dx, dy)
        ELSE IF new_x < 0 \/ new_x >= chunk_size \/ new_y < 0 \/ new_y >= chunk_size
        THEN _handle_chunk_transition(self, new_x, new_y)
        ELSE _move_player(self, new_x, new_y)

_toggle_mode(self) ==
    IF self.mode = "micro"
    THEN [self EXCEPT !.mode = "macro",
                      !.macro_cursor_x = self.current_chunk_coords.macro_x,
                      !.macro_cursor_y = self.current_chunk_coords.macro_y]
    ELSE LET new_coords == ChunkCoords(self.macro_cursor_x, self.macro_cursor_y, 0, 0)
             micro == [self EXCEPT !.mode = "micro"]
         IN  IF \/ new_coords.macro_x # self.current_chunk_coords.macro_x
                \/ new_coords.macro_y # self.current_chunk_coords.macro_y
             THEN PlayerAt(_load_chunk(micro, new_coords),
                           GameArgs.chunk_size \div 2, GameArgs.chunk_size \div 2)
             ELSE micro

\* _handle_input, given the command get_command returned
_handle_input(self, command) ==
    LET logged == [self EXCEPT !.recorded = @ + 1, !.command = command]
    IN  IF command = "quit" THEN [logged EXCEPT !.running = FALSE]
        ELSE IF command = "toggle_mode" THEN _toggle_mode(logged)
        ELSE IF command \in MovementCommands THEN _handle_movement(logged, command)
        ELSE logged

\* Game.__init__ and _setup_game
Game ==
    LET cursor_x == GameArgs.width \div 2
        cursor_y == GameArgs.height \div 2
        centre == GameArgs.chunk_size \div 2
    IN  _load_chunk([mode |-> "micro", running |-> TRUE,
                     macro_cursor_x |-> cursor_x, macro_cursor_y |-> cursor_y,
                     current_chunk_coords |-> ChunkCoords(cursor_x, cursor_y, 0, 0),
                     current_chunk |-> <<>>, chunks |-> <<>>,
                     player_x |-> centre, player_y |-> centre,
                     position |-> <<centre, centre>>, camera |-> <<centre, centre>>,
                     recorded |-> 0, command |-> "None"],
                    ChunkCoords(cursor_x, cursor_y, 0, 0))

(***************************************************************************)
(* SpecGame: the game loop, one step per command read.  _update moves only *)
(* entities with a Velocity, of which there is none, and _render changes   *)
(* nothing of the game.                                                    *)
(***************************************************************************)
GameInit ==
    /\ NoTile
    /\ worlds = <<>>
    /\ NoGenerator
    /\ NoRegistry
    /\ NoSaveManager
    /\ NoRivers
    /\ NoPasses
    /\ game = Game

\* an iteration of "while self.running" in which get_command returns command
Iteration(command) ==
    /\ game.running
    /\ game.recorded < MaxGameCommands
    /\ game' = _handle_input(game, command)
    /\ UNCHANGED <<tile_vars, worlds, chunk_vars, ecs_vars, save_vars, river_frame,
                   chunk_frame>>

Move == \E command \in MovementCommands : Iteration(command)

ToggleMode == Iteration("toggle_mode")

Quit == Iteration("quit")

Invalid == Iteration("invalid")

GameNext == Move \/ ToggleMode \/ Quit \/ Invalid

SpecGame == GameInit /\ [][GameNext]_vars

\* the tile a movement command leads the player to in micro mode: the tile
\* of the current chunk, or across a chunk edge the tile of the adjacent
\* chunk if that chunk is on the macro map; <<>> if it is not
Destination(self, command) ==
    LET new_x == self.player_x + get_movement_delta(command)[1]
        new_y == self.player_y + get_movement_delta(command)[2]
        chunk_size == GameArgs.chunk_size
        coords == ChunkCoords(
            self.current_chunk_coords.macro_x + MacroDelta(new_x, chunk_size),
            self.current_chunk_coords.macro_y + MacroDelta(new_y, chunk_size), 0, 0)
    IN  IF ChunkKey(coords) \notin GameKeys THEN <<>>
        ELSE <<GameGenerate(GameChunks, self.chunks, coords).chunk[
                   <<Wrapped(new_x, chunk_size), Wrapped(new_y, chunk_size)>>]>>

\* the step from self to next handled a movement command in micro mode whose
\* destination tile is impassable
BlockedMove(self, next) ==
    /\ self.mode = "micro"
    /\ next.recorded = self.recorded + 1
    /\ next.command \in MovementCommands
    /\ Len(Destination(self, next.command)) = 1
    /\ ~Destination(self, next.command)[1].passable

(***************************************************************************)
(* C29: a movement command in micro mode whose destination tile is         *)
(* impassable leaves the player position, the current chunk coordinates    *)
(* and the current chunk as they were, also when the destination lies      *)
(* across a chunk edge in an adjacent chunk of the macro map.              *)
(***************************************************************************)
C29_BlockedMove ==
    [][BlockedMove(game, game') =>
           /\ game'.player_x = game.player_x
           /\ game'.player_y = game.player_y
           /\ game'.current_chunk_coords = game.current_chunk_coords
           /\ game'.current_chunk = game.current_chunk]_vars

(***************************************************************************)
(* C30: after any sequence of commands the macro cursor and the current    *)
(* chunk's macro coordinates are on the macro map, the player's local      *)
(* position is within the chunk on both axes, and the Position component   *)
(* of the player entity equals (player_x, player_y).                       *)
(***************************************************************************)
C30_GameBounds ==
    /\ game.macro_cursor_x \in 0..(GameArgs.width - 1)
    /\ game.macro_cursor_y \in 0..(GameArgs.height - 1)
    /\ game.current_chunk_coords.macro_x \in 0..(GameArgs.width - 1)
    /\ game.current_chunk_coords.macro_y \in 0..(GameArgs.height - 1)
    /\ game.player_x \in 0..(GameArgs.chunk_size - 1)
    /\ game.player_y \in 0..(GameArgs.chunk_size - 1)
    /\ game.position = <<game.player_x, game.player_y>>

\* the game was quit after the player crossed a chunk edge, the cursor was
\* moved against the edge of the macro map, and a chunk was loaded from the
\* macro view
C30_Witness ==
    /\ ~game.running
    /\ game.command = "quit"
    /\ game.mode = "micro"
    /\ Cardinality(DOMAIN game.chunks) >= 3
    /\ game.macro_cursor_x = 0
    /\ game.current_chunk_coords # ChunkCoords(game.macro_cursor_x, game.macro_cursor_y, 0, 0)
    /\ <<game.player_x, game.player_y>>
           # <<GameArgs.chunk_size \div 2, GameArgs.chunk_size \div 2>>
====
